---- MODULE Spec2Model ----
(***************************************************************************)
(* A model of DensMD (run_densmd.py): the DensityVisualiser window, its    *)
(* ROI sliders, Miller-plane controls, debounced update timer, region-data *)
(* cache, histogram loading and the transfer function.                     *)
(*                                                                         *)
(* Coordinates are integers, one unit per Angstrom.  The loaded cells are  *)
(* chosen so that the grid spacing is an even number of units, and every   *)
(* quantity the code computes in floating point is computed here exactly   *)
(* (comparisons against sqrt(h^2+k^2+l^2) are done on squares).            *)
(***************************************************************************)
EXTENDS Integers, Sequences, FiniteSets, TLC

(***************************************************************************)
(* Bounds of the model.                                                    *)
(***************************************************************************)
\* GRID_RESOLUTION of the source (200 there), reduced.
GRID_RESOLUTION == 2
\* UPDATE_DELAY_MS of the source (200 ms), counted in clock ticks.
UPDATE_DELAY_TICKS == 2

\* Python's None and a present value: an empty and a one-element tuple.
None == <<>>
Some(x) == <<x>>
Get(o) == o[1]
Axes == 1..3
GridIndex == 0 .. (GRID_RESOLUTION - 1)

Min2(a, b) == IF a < b THEN a ELSE b
Max2(a, b) == IF a > b THEN a ELSE b
Abs(a) == IF a < 0 THEN -a ELSE a

(***************************************************************************)
(* Values the user can give to the Miller controls.  The spin boxes allow  *)
(* h,k,l in -10..10, thickness in 0.1..20.0 and offset in -10.0..10.0; the *)
(* model takes a few values of each, the defaults included.                *)
(***************************************************************************)
MillerIndexValues == {0, 1}
MillerThicknessValues == {2, 4}
MillerOffsetValues == {-2, -1, 0}

\* Values given to the other widgets: Gaussian sigma (slider 0..20), the
\* density thresholds (sliders 0..255), opacity (slider 0..100), gamma (spin
\* box 0.0..2.0), and the three visualisation modes.
SigmaValues == {0, 1}
DensityLowerValues == {0, 77, 85, 255}
DensityUpperValues == {0, 178, 255}
OpacityValues == {0, 100}
GammaValues == {0, 1, 2}
Modes == {"Hidden", "Histogram", "Averaged Positions"}

VARIABLES
  phase,            \* "constructing", "loaded", "ready" or "load_failed"
  input,            \* the configuration of the run: input config, the file's
                    \* trajectory, ROI definition and atom type map
  renderer_fails,   \* the species for which the renderer raises on add_volume / add_mesh
  sliders,          \* the six ROI sliders' values
  miller,           \* Miller check box and spin boxes
  sigma,            \* the Gaussian sigma slider
  modes,            \* per species: the mode combo box
  tfui,             \* per species: density_lower, density_upper, opacity, gamma
  timeouts,         \* pending single-shot timeouts of update_timer (ticks left)
  sinceChange,      \* ticks since the last schedule_update (saturates)
  changesInBurst,   \* parameter changes of the current burst (saturates at 2)
  passesInBurst,    \* update passes run since the current burst began
  grid,             \* global_cell_origin / global_spacing / global_cell_center
  atom_data,        \* per species: positions, averages, histogram_data
  self_frames,      \* self.frames (None when the object has no such attribute)
  initial_roi,      \* initial_roi_min / initial_roi_max (None when absent)
  region_cache,     \* _region_data_cache
  last_hash,        \* (_last_roi_hash, _last_miller_hash)
  smoothed_hist_cache, \* _smoothed_hist_cache
  region_data,      \* what _precompute_region_data returned in the last pass
  cache_hit,        \* whether the last pass took the cache-hit path
  rendered_actors,  \* per species: the actor of the last pass
  reported,         \* the species whose error the last pass printed
  raised,           \* whether an exception left the last pass
  camera,           \* the camera's focal point
  pass_read         \* the widget values the last pass read

uiVars == <<sliders, miller, sigma, modes, tfui>>
timerVars == <<timeouts, sinceChange, changesInBurst, passesInBurst>>
loadVars ==
  <<phase, input, renderer_fails, grid, atom_data, self_frames, initial_roi>>
passVars == <<region_cache, last_hash, smoothed_hist_cache, region_data, cache_hit,
              rendered_actors, reported, raised, camera, pass_read>>
vars == <<uiVars, timerVars, loadVars, passVars>>

(***************************************************************************)
(* Python's hash on the values that enter the cache key.  hash(n) = n for  *)
(* a small int or an integer-valued float, except hash(-1) = -2; True and  *)
(* False hash to 1 and 0.  The hash of a tuple is a function of the hashes *)
(* of its elements, modelled by the tuple of those hashes.                 *)
(***************************************************************************)
PyHashNum(n) == IF n = -1 THEN -2 ELSE n
PyHashBool(b) == IF b THEN 1 ELSE 0

roi_hash_of(roi_indices) ==
  <<PyHashNum(roi_indices.xmax), PyHashNum(roi_indices.xmin),
    PyHashNum(roi_indices.ymax), PyHashNum(roi_indices.ymin),
    PyHashNum(roi_indices.zmax), PyHashNum(roi_indices.zmin)>>

miller_hash_of(mp) ==
  <<PyHashBool(mp.use_miller), PyHashNum(mp.h), PyHashNum(mp.k), PyHashNum(mp.l),
    PyHashNum(mp.thickness), PyHashNum(mp.offset)>>

(***************************************************************************)
(* _get_miller_parameters: the unit normal is (h,k,l)/norm; it is kept as  *)
(* the integer vector together with norm^2.                                *)
(***************************************************************************)
\* _get_miller_parameters without the norm > 0 test.
_get_miller_parameters_any_norm(m) ==
  [use_miller |-> m.use_miller, h |-> m.h, k |-> m.k, l |-> m.l,
   thickness |-> m.thickness, offset |-> m.offset,
   n |-> IF m.use_miller
           THEN Some([hkl |-> <<m.h, m.k, m.l>>,
                      norm2 |-> m.h * m.h + m.k * m.k + m.l * m.l])
           ELSE None]

_get_miller_parameters(m) ==
  LET norm2 == m.h * m.h + m.k * m.k + m.l * m.l
  IN  [use_miller |-> m.use_miller, h |-> m.h, k |-> m.k, l |-> m.l,
       thickness |-> m.thickness, offset |-> m.offset,
       n |-> IF m.use_miller /\ norm2 > 0
               THEN Some([hkl |-> <<m.h, m.k, m.l>>, norm2 |-> norm2])
               ELSE None]

_get_roi_indices(s) == s

_compute_physical_bounds(roi_indices, grid_params) ==
  LET origin == grid_params.origin
      spacing == grid_params.spacing
  IN  <<[a \in Axes |-> origin[a] +
           (CASE a = 1 -> roi_indices.xmin [] a = 2 -> roi_indices.ymin
              [] OTHER -> roi_indices.zmin) * spacing[a]],
        [a \in Axes |-> origin[a] +
           (CASE a = 1 -> roi_indices.xmax [] a = 2 -> roi_indices.ymax
              [] OTHER -> roi_indices.zmax) * spacing[a]]>>

(***************************************************************************)
(* a < b * sqrt(S) and a > b * sqrt(S), for integers a, b and S > 0.       *)
(***************************************************************************)
LessSqrt(a, b, S) ==
  IF b >= 0 THEN a < 0 \/ a * a < b * b * S
            ELSE a < 0 /\ a * a > b * b * S
GreaterSqrt(a, b, S) == LessSqrt(-a, -b, S)

(***************************************************************************)
(* |(p - c).n - offset| < thickness / 2, with p and c given doubled (p2 =  *)
(* 2p, c2 = 2c) so that voxel centres at half spacings stay integers.      *)
(***************************************************************************)
InSlab(p2, c2, n, thickness, offset) ==
  LET A2 == (p2[1] - c2[1]) * n.hkl[1] + (p2[2] - c2[2]) * n.hkl[2]
            + (p2[3] - c2[3]) * n.hkl[3]
  IN  /\ GreaterSqrt(A2, 2 * offset - thickness, n.norm2)
      /\ LessSqrt(A2, 2 * offset + thickness, n.norm2)

RoiDims(roi_indices) ==
  <<roi_indices.xmax - roi_indices.xmin + 1,
    roi_indices.ymax - roi_indices.ymin + 1,
    roi_indices.zmax - roi_indices.zmin + 1>>

RoiVoxels(roi_indices) ==
  LET dims == RoiDims(roi_indices)
  IN  (0 .. dims[1] - 1) \X (0 .. dims[2] - 1) \X (0 .. dims[3] - 1)

\* The centre of voxel v of the ROI sub-grid, doubled.
VoxelCentre2(roi_indices, grid_params, v) ==
  LET origin == grid_params.origin
      spacing == grid_params.spacing
      lo == <<roi_indices.xmin, roi_indices.ymin, roi_indices.zmin>>
  IN  [a \in Axes |->
         2 * (origin[a] + lo[a] * spacing[a]) + (2 * v[a] + 1) * spacing[a]]

\* compute_roi_miller_mask with distances <= thickness / 2.
compute_roi_miller_mask_closed(roi_indices, grid_params, miller_params) ==
  LET cell_center == grid_params.cell_center
      n == Get(miller_params.n)
      centres == [v \in RoiVoxels(roi_indices) |->
                    VoxelCentre2(roi_indices, grid_params, v)]
  IN  [voxel_centers |-> centres,
       mask |-> [v \in RoiVoxels(roi_indices) |->
                   LET A2 == (centres[v][1] - 2 * cell_center[1]) * n.hkl[1]
                             + (centres[v][2] - 2 * cell_center[2]) * n.hkl[2]
                             + (centres[v][3] - 2 * cell_center[3]) * n.hkl[3]
                   IN  /\ ~LessSqrt(A2, 2 * miller_params.offset
                                         - miller_params.thickness, n.norm2)
                       /\ ~GreaterSqrt(A2, 2 * miller_params.offset
                                            + miller_params.thickness, n.norm2)]]

compute_roi_miller_mask(roi_indices, grid_params, miller_params) ==
  LET cell_center == grid_params.cell_center
      centres == [v \in RoiVoxels(roi_indices) |->
                    VoxelCentre2(roi_indices, grid_params, v)]
  IN  [voxel_centers |-> centres,
       mask |-> [v \in RoiVoxels(roi_indices) |->
                   InSlab(centres[v], [a \in Axes |-> 2 * cell_center[a]],
                          Get(miller_params.n), miller_params.thickness,
                          miller_params.offset)]]

(***************************************************************************)
(* filter_points_by_miller on a sequence of points (given doubled).        *)
(***************************************************************************)
\* filter_points_by_miller with <= in place of <.
filter_points_by_miller_closed(points2, cell_center, miller_params) ==
  IF miller_params.use_miller /\ miller_params.n # None
    THEN SelectSeq(points2, LAMBDA p2 :
            LET n == Get(miller_params.n)
                A2 == (p2[1] - 2 * cell_center[1]) * n.hkl[1]
                      + (p2[2] - 2 * cell_center[2]) * n.hkl[2]
                      + (p2[3] - 2 * cell_center[3]) * n.hkl[3]
            IN  /\ ~LessSqrt(A2, 2 * miller_params.offset - miller_params.thickness,
                             n.norm2)
                /\ ~GreaterSqrt(A2, 2 * miller_params.offset + miller_params.thickness,
                                n.norm2))
    ELSE points2

filter_points_by_miller(points2, cell_center, miller_params) ==
  IF miller_params.use_miller /\ miller_params.n # None
    THEN SelectSeq(points2, LAMBDA p2 :
            LET n == Get(miller_params.n)
                A2 == (p2[1] - 2 * cell_center[1]) * n.hkl[1]
                      + (p2[2] - 2 * cell_center[2]) * n.hkl[2]
                      + (p2[3] - 2 * cell_center[3]) * n.hkl[3]
            IN  /\ GreaterSqrt(A2, 2 * miller_params.offset - miller_params.thickness,
                               n.norm2)
                /\ LessSqrt(A2, 2 * miller_params.offset + miller_params.thickness,
                            n.norm2))
    ELSE points2

(***************************************************************************)
(* A focal point is kept as the doubled sum of the points averaged and     *)
(* their number: the point is sum2 / (2 * count).                          *)
(***************************************************************************)
RECURSIVE VecSum(_, _)
VecSum(f, S) ==
  IF S = {} THEN <<0, 0, 0>>
  ELSE LET v == CHOOSE x \in S : TRUE
           r == VecSum(f, S \ {v})
       IN  <<f[v][1] + r[1], f[v][2] + r[2], f[v][3] + r[3]>>

MidPoint(phys_bounds) ==
  [sum2 |-> <<phys_bounds[1][1] + phys_bounds[2][1],
              phys_bounds[1][2] + phys_bounds[2][2],
              phys_bounds[1][3] + phys_bounds[2][3]>>,
   count |-> 1]

SampleStride == 5

\* FocalPoint over every voxel of the mask instead of the strided sample.
FocalPoint_unsampled(phys_bounds, roi_voxel_centers, miller_mask) ==
  IF miller_mask # None /\ (\E v \in DOMAIN Get(miller_mask) : Get(miller_mask)[v])
    THEN LET inside == {v \in DOMAIN Get(miller_mask) : Get(miller_mask)[v]}
         IN  [sum2 |-> VecSum(Get(roi_voxel_centers), inside),
              count |-> Cardinality(inside)]
    ELSE MidPoint(phys_bounds)

FocalPoint(phys_bounds, roi_voxel_centers, miller_mask) ==
  IF miller_mask # None /\ (\E v \in DOMAIN Get(miller_mask) : Get(miller_mask)[v])
    THEN LET sampled == {v \in DOMAIN Get(miller_mask) :
                           /\ v[1] % SampleStride = 0
                           /\ v[2] % SampleStride = 0
                           /\ v[3] % SampleStride = 0
                           /\ Get(miller_mask)[v]}
         IN  IF sampled # {}
               THEN [sum2 |-> VecSum(Get(roi_voxel_centers), sampled),
                     count |-> Cardinality(sampled)]
               ELSE MidPoint(phys_bounds)
    ELSE MidPoint(phys_bounds)

(***************************************************************************)
(* The cache-miss path of _precompute_region_data: the region data of the  *)
(* given ROI indices and Miller controls, computed afresh.                 *)
(***************************************************************************)
\* The region_data dictionary; cm is what compute_roi_miller_mask returned, or
\* None when the mask is not computed.
RegionRecord(roi_indices, grid_params, miller_params, phys_bounds, cm) ==
  [roi_indices |-> roi_indices,
   phys_bounds |-> phys_bounds,
   roi_voxel_centers |-> IF cm # None THEN Some(Get(cm).voxel_centers) ELSE None,
   miller_mask |-> IF cm # None THEN Some(Get(cm).mask) ELSE None,
   focal_point |-> FocalPoint(phys_bounds,
                              IF cm # None THEN Some(Get(cm).voxel_centers) ELSE None,
                              IF cm # None THEN Some(Get(cm).mask) ELSE None),
   grid_params |-> grid_params,
   miller_params |-> miller_params]

ComputeRegionData(roi_indices, grid_params, miller_params) ==
  RegionRecord(roi_indices, grid_params, miller_params,
               _compute_physical_bounds(roi_indices, grid_params),
               IF miller_params.use_miller /\ miller_params.n # None
                 THEN Some(compute_roi_miller_mask(roi_indices, grid_params, miller_params))
                 ELSE None)

CacheKey(roi_indices, miller_params) ==
  <<roi_hash_of(roi_indices), miller_hash_of(miller_params)>>

\* CacheHit without the comparison of the hashes.
CacheHit_any_key(cache, last, roi_indices, miller_params) == cache # None

CacheHit(cache, last, roi_indices, miller_params) ==
  cache # None /\ last = Some(CacheKey(roi_indices, miller_params))

\* What _precompute_region_data returns, given the cache slot.
_precompute_region_data(roi_indices, grid_params, m, cache, last) ==
  LET miller_params == _get_miller_parameters(m)
  IN  IF CacheHit(cache, last, roi_indices, miller_params)
        THEN Get(cache)
        ELSE ComputeRegionData(roi_indices, grid_params, miller_params)

_get_grid_parameters(g) ==
  [origin |-> g.global_cell_origin, spacing |-> g.global_spacing,
   cell_center |-> g.global_cell_center]

(***************************************************************************)
(* Loading.  A trajectory is a sequence of frames; a frame has the atoms'  *)
(* chemical symbols, their positions and the 3x3 cell (rows are the cell   *)
(* vectors).                                                               *)
(***************************************************************************)
\* ATOM_TYPE_MAP of the source.
ATOM_TYPE_MAP == Some([H |-> "Li", He |-> "P", Li |-> "S", Be |-> "Br"])

\* AVERAGE_POSITIONS_FRAME_SLICE of the source is slice(10000, 10001): the one
\* frame of index 10000.  The model keeps a one-frame slice at a reduced index.
AVG_SLICE_START == 1
AVG_SLICE_STOP == 2

\* Every label the model uses, in Python's string order (sorted()).
LabelOrder == <<"Be", "Br", "H", "He", "Li", "O", "P", "S">>

\* _get_chemical_symbols_mapped with the map applied to its own output.
_get_chemical_symbols_mapped_twice(atom_type_map, symbols) ==
  IF atom_type_map = None
    THEN symbols
    ELSE LET once == [i \in DOMAIN symbols |->
                        IF symbols[i] \in DOMAIN Get(atom_type_map)
                          THEN Get(atom_type_map)[symbols[i]]
                          ELSE symbols[i]]
         IN  [i \in DOMAIN symbols |->
                IF once[i] \in DOMAIN Get(atom_type_map)
                  THEN Get(atom_type_map)[once[i]]
                  ELSE once[i]]

_get_chemical_symbols_mapped(atom_type_map, symbols) ==
  IF atom_type_map = None
    THEN symbols
    ELSE [i \in DOMAIN symbols |->
            IF symbols[i] \in DOMAIN Get(atom_type_map)
              THEN Get(atom_type_map)[symbols[i]]
              ELSE symbols[i]]

\* sorted() of a set of labels
SortedLabels(S) == SelectSeq(LabelOrder, LAMBDA t : t \in S)

\* sorted(set(symbols_first))
UniqueTypes(symbols_first) ==
  SelectSeq(LabelOrder, LAMBDA t : \E i \in DOMAIN symbols_first : symbols_first[i] = t)

\* indices_map[atype]: the atom indices of the species, ascending.
IndicesOf(symbols_first, atype) ==
  SelectSeq([i \in 1 .. Len(symbols_first) |-> i],
            LAMBDA i : symbols_first[i] = atype)

MinOf(S) == CHOOSE x \in S : \A y \in S : x <= y
MaxOf(S) == CHOOSE x \in S : \A y \in S : x >= y

\* Only the two ends of the cell's diagonal.
FullCellCorners_diagonal(cell) ==
  {[a \in Axes |-> i * (cell[1][a] + cell[2][a] + cell[3][a])] : i \in {0, 1}}

\* The 8 corners np.dot([i, j, k], cell), i, j, k in (0, 1).
FullCellCorners(cell) ==
  {[a \in Axes |-> i * cell[1][a] + j * cell[2][a] + k * cell[3][a]] :
     <<i, j, k>> \in {0, 1} \X {0, 1} \X {0, 1}}

\* The fractional corners taken for Cartesian ones.
FractionalCorners_unscaled(fbounds, cell) ==
  {<<fbounds[1][i], fbounds[2][j], fbounds[3][k]>> :
     <<i, j, k>> \in {1, 2} \X {1, 2} \X {1, 2}}

\* abs_corners = np.dot(f_corners, cell)
FractionalCorners(fbounds, cell) ==
  {[a \in Axes |-> fbounds[1][i] * cell[1][a] + fbounds[2][j] * cell[2][a]
                   + fbounds[3][k] * cell[3][a]] :
     <<i, j, k>> \in {1, 2} \X {1, 2} \X {1, 2}}

\* corners.min(axis=0), corners.max(axis=0)
CornerBounds(corners) ==
  [ok |-> TRUE,
   roi_min |-> [a \in Axes |-> MinOf({c[a] : c \in corners})],
   roi_max |-> [a \in Axes |-> MaxOf({c[a] : c \in corners})]]

\* _calculate_roi_bounds: [ok, roi_min, roi_max], or ok = FALSE for a ValueError.
_calculate_roi_bounds(roi_def, cell) ==
  IF roi_def = None
    THEN CornerBounds(FullCellCorners(cell))
    ELSE LET rd == Get(roi_def)
             roi_type == IF rd.type = None THEN "absolute" ELSE Get(rd.type)
         IN  IF rd.bounds = None
               THEN [ok |-> FALSE, error |-> "ROI definition must include 'bounds'"]
             ELSE IF roi_type = "fractional"
               THEN CornerBounds(FractionalCorners(Get(rd.bounds), cell))
             ELSE IF roi_type = "absolute"
               THEN [ok |-> TRUE,
                     roi_min |-> [a \in Axes |-> Get(rd.bounds)[a][1]],
                     roi_max |-> [a \in Axes |-> Get(rd.bounds)[a][2]]]
             ELSE [ok |-> FALSE, error |-> "Unknown ROI type"]

InRoi(p, roi_min, roi_max) ==
  \A a \in Axes : p[a] >= roi_min[a] /\ p[a] <= roi_max[a]

\* positions_array[:, indices, :].reshape(-1, 3): frame by frame, atom by atom.
RECURSIVE Flatten(_, _)
Flatten(frames, indices) ==
  IF frames = <<>> THEN <<>>
  ELSE [j \in 1 .. Len(indices) |-> Head(frames).positions[indices[j]]]
       \o Flatten(Tail(frames), indices)

RECURSIVE SumComponent(_, _, _)
SumComponent(fs, atom, a) ==
  IF fs = <<>> THEN 0
  ELSE Head(fs).positions[atom][a] + SumComponent(Tail(fs), atom, a)

\* trajectories[AVERAGE_POSITIONS_FRAME_SLICE]: frames start..stop-1 (0-based).
SlicedFrames(frames) ==
  SubSeq(frames, AVG_SLICE_START + 1, Min2(AVG_SLICE_STOP, Len(frames)))

\* np.mean over the sliced frames; the mean of no frame is NaN.
\* (NaN is the absent value None here.)
MeanPosition(frames, atom) ==
  LET fs == SlicedFrames(frames)
  IN  IF fs = <<>> THEN None
      ELSE Some([a \in Axes |-> SumComponent(fs, atom, a) \div Len(fs)])

_process_frames(frames, symbols_first, roi_min, roi_max) ==
  LET types == UniqueTypes(symbols_first)
  IN  [atype \in {types[i] : i \in DOMAIN types} |->
         LET indices == IndicesOf(symbols_first, atype)
             unfiltered == Flatten(frames, indices)
             averages == [j \in 1 .. Len(indices) |-> MeanPosition(frames, indices[j])]
         IN  [global_positions |->
                SelectSeq(unfiltered, LAMBDA p : InRoi(p, roi_min, roi_max)),
              individual_averages |->
                LET kept == SelectSeq(averages,
                              LAMBDA p : p # None /\ InRoi(Get(p), roi_min, roi_max))
                IN  [j \in 1 .. Len(kept) |-> Get(kept[j])]]]

(***************************************************************************)
(* The grid and the histograms of load_and_precompute.                     *)
(***************************************************************************)
\* The ROI extents of the model's inputs are multiples of
\* 2 * (GRID_RESOLUTION - 1), so the divisions are exact.  MinExtent is the
\* 1e-6 of the source in the model's length unit: the smallest extent the
\* grid divides evenly.
MinExtent == 2 * (GRID_RESOLUTION - 1)

\* roi_dimensions: np.maximum(roi_dimensions, 1e-6) when some extent is
\* <= 1e-9.
RoiDimensions(roi_min, roi_max) ==
  IF \E a \in Axes : roi_max[a] - roi_min[a] <= 0
    THEN [a \in Axes |-> Max2(roi_max[a] - roi_min[a], MinExtent)]
    ELSE [a \in Axes |-> roi_max[a] - roi_min[a]]

\* np.where(spacing == 0, 1e-6, spacing)
NonZeroSpacing(sp) == IF sp = 0 THEN MinExtent ELSE sp

GridOfDimensions(roi_min, roi_dimensions) ==
  [global_cell_origin |-> roi_min,
   global_spacing |->
     [a \in Axes |-> NonZeroSpacing(roi_dimensions[a] \div (GRID_RESOLUTION - 1))],
   global_cell_center |-> [a \in Axes |-> roi_min[a] + roi_dimensions[a] \div 2]]

GridOf(roi_min, roi_max) ==
  GridOfDimensions(roi_min, RoiDimensions(roi_min, roi_max))

\* The N+1 bin edges of one axis, the last one snapped to the ROI max.
Edges(lo, hi, spacing) ==
  [i \in 0 .. GRID_RESOLUTION |->
     IF i = GRID_RESOLUTION THEN hi ELSE lo + i * spacing]

\* np.clip(x, lo, hi), without the epsilon.
ClipEps_to_max(x, lo, hi) ==
  IF x < lo THEN <<lo, 0>> ELSE IF x >= hi THEN <<hi, 0>> ELSE <<x, 0>>

\* np.clip(x, lo, hi - 1e-9): the value x - e * 1e-9 is kept as <<x, e>>.
ClipEps(x, lo, hi) ==
  IF x < lo THEN <<lo, 0>> ELSE IF x >= hi THEN <<hi, 1>> ELSE <<x, 0>>

\* edge < value: what searchsorted(side='left') counts.
EdgeLeq_strict(edge, v) == edge < v[1] \/ (edge = v[1] /\ v[2] < 0)

\* edge <= value, for a value <<x, e>>
EdgeLeq(edge, v) == edge < v[1] \/ (edge = v[1] /\ v[2] = 0)

\* np.histogramdd's bin of a value on one axis: searchsorted(side='right'),
\* one less for a value on the last edge; -1 and GRID_RESOLUTION are outliers.
BinOf(edges, v) ==
  LET ncount == Cardinality({i \in DOMAIN edges : EdgeLeq(edges[i], v)})
      on_edge == v[1] = edges[GRID_RESOLUTION] /\ v[2] = 0
  IN  (IF on_edge THEN ncount - 1 ELSE ncount) - 1

histogramdd(positions_clipped, edges) ==
  [b \in GridIndex \X GridIndex \X GridIndex |->
     Cardinality({i \in DOMAIN positions_clipped :
                    \A a \in Axes : BinOf(edges[a], positions_clipped[i][a]) = b[a]})]

\* The histogram_data dictionary of a species with positions.
HistogramRecord(raw_hist, g, global_min) ==
  [raw_data |-> raw_hist,
   origin |-> global_min, spacing |-> g.global_spacing,
   global_min |-> MinOf({raw_hist[b] : b \in DOMAIN raw_hist}),
   global_max |-> MaxOf({raw_hist[b] : b \in DOMAIN raw_hist})]

HistogramData(positions, g, global_min, global_max) ==
  IF Len(positions) = 0
    THEN [data |-> [b \in GridIndex \X GridIndex \X GridIndex |-> 0],
          origin |-> global_min, spacing |-> g.global_spacing,
          global_min |-> 0, global_max |-> 0]
    ELSE HistogramRecord(
           histogramdd(
             [i \in DOMAIN positions |->
                [a \in Axes |-> ClipEps(positions[i][a], global_min[a], global_max[a])]],
             [a \in Axes |-> Edges(global_min[a], global_max[a], g.global_spacing[a])]),
           g, global_min)

(***************************************************************************)
(* load_and_precompute: the object's fields after the call, or an error.   *)
(* roi_definition is the module-level ROI_DEFINITION the call reads at     *)
(* line 898. The file never assigns that name, so it is taken as part of   *)
(* the configuration the program is run with, like INPUT_FILE_CONFIG.      *)
(* The result has ok and, whether the call returned or raised, the fields  *)
(* the object has afterwards: frames (None when the attribute is absent),  *)
(* initial_roi, grid and atom_data (<<>> when absent).                     *)
(***************************************************************************)
\* A 'slice' entry of the configuration is a string, kept as the parts
\* split(':') gives (each part empty, an integer numeral or other text), a
\* slice object, or some other value.
SliceOfString(parts) ==
  [kind |-> "str", parts |-> parts]
SliceObject(start, stop, step) ==
  [kind |-> "slice", start |-> start, stop |-> stop, step |-> step]
OtherValue == [kind |-> "other"]
EmptyPart == [text |-> "empty"]
IntPart(n) == [text |-> "int", value |-> n]
OtherPart == [text |-> "other"]

\* int(p) if p else None
PartNum(part) == IF part.text = "int" THEN Some(part.value) ELSE None

\* ParseSlice taking a value that is no string and no slice for slice(None).
ParseSlice_lenient(frames_slice) ==
  IF frames_slice.kind = "str"
    THEN IF \E i \in DOMAIN frames_slice.parts : frames_slice.parts[i].text = "other"
           THEN [ok |-> FALSE, error |-> "invalid literal for int()"]
         ELSE IF Len(frames_slice.parts) > 3
           THEN [ok |-> FALSE, error |-> "slice expected at most 3 arguments"]
         ELSE [ok |-> TRUE, start |-> None, stop |-> None, step |-> None]
  ELSE [ok |-> TRUE, start |-> None, stop |-> None, step |-> None]

\* Lines 870-875: the slice the configuration gives, or the error raised.
\* slice(a) is slice(None, a, None); slice() of more than three arguments is
\* a TypeError.
ParseSlice(frames_slice) ==
  IF frames_slice.kind = "str"
    THEN IF \E i \in DOMAIN frames_slice.parts : frames_slice.parts[i].text = "other"
           THEN [ok |-> FALSE, error |-> "invalid literal for int()"]
         ELSE IF Len(frames_slice.parts) > 3
           THEN [ok |-> FALSE, error |-> "slice expected at most 3 arguments"]
         ELSE IF Len(frames_slice.parts) = 1
           THEN [ok |-> TRUE, start |-> None, stop |-> PartNum(frames_slice.parts[1]),
                 step |-> None]
         ELSE [ok |-> TRUE, start |-> PartNum(frames_slice.parts[1]),
               stop |-> PartNum(frames_slice.parts[2]),
               step |-> IF Len(frames_slice.parts) = 3
                          THEN PartNum(frames_slice.parts[3]) ELSE None]
  ELSE IF frames_slice.kind = "slice"
    THEN [ok |-> TRUE, start |-> frames_slice.start, stop |-> frames_slice.stop,
          step |-> frames_slice.step]
  ELSE [ok |-> FALSE, error |-> "Invalid slice object"]

\* frames[start:stop:step] for non-negative start and stop and positive step.
ApplySlice(file, sl) ==
  LET first == IF sl.start = None THEN 0 ELSE Min2(Get(sl.start), Len(file))
      last == IF sl.stop = None THEN Len(file) ELSE Min2(Get(sl.stop), Len(file))
      step == IF sl.step = None THEN 1 ELSE Get(sl.step)
      count == IF last <= first THEN 0 ELSE (last - first + step - 1) \div step
  IN  [n \in 1 .. count |-> file[first + 1 + (n - 1) * step]]

\* del self.frames
ReleaseFrames_kept(frames) == Some(frames)

ReleaseFrames(frames) == None

\* The object after an exception has left the call.
LoadError(error, frames, roi, g, ad) ==
  [ok |-> FALSE, error |-> error, frames |-> frames, initial_roi |-> roi,
   grid |-> g, atom_data |-> ad]

\* np.histogramdd refuses bin edges that decrease.
Monotonic(edges) ==
  \A i \in 0 .. GRID_RESOLUTION - 1 : edges[i] <= edges[i + 1]

\* Whether the histogram loop reaches np.histogramdd with decreasing edges:
\* some species has positions and the last edge, set to the ROI max, lies
\* below the edge before it.
HistogramRaises(rb, g, species_data) ==
  /\ \E atype \in DOMAIN species_data : Len(species_data[atype].global_positions) > 0
  /\ \E a \in Axes : ~Monotonic(Edges(rb.roi_min[a], rb.roi_max[a], g.global_spacing[a]))

\* self.atom_data when np.histogramdd has raised: the species before the
\* first one with positions have their zero field, the others no histogram.
PartialAtomData(g, rb, species_data) ==
  LET types == SortedLabels(DOMAIN species_data)
      failing == MinOf({i \in DOMAIN types :
                          Len(species_data[types[i]].global_positions) > 0})
  IN  [atype \in DOMAIN species_data |->
         IF \E i \in 1 .. failing - 1 : types[i] = atype
           THEN [global_positions |-> species_data[atype].global_positions,
                 individual_averages |-> species_data[atype].individual_averages,
                 histogram_data |-> HistogramData(<<>>, g, rb.roi_min, rb.roi_max)]
           ELSE species_data[atype]]

\* The fields set once the ROI bounds rb, the grid g and the per-species
\* positions and averages are known.
LoadedFields(frames, rb, g, species_data) ==
  IF HistogramRaises(rb, g, species_data)
    THEN LoadError("bins must be monotonically increasing", Some(frames),
                   Some([roi_min |-> rb.roi_min, roi_max |-> rb.roi_max]),
                   g, PartialAtomData(g, rb, species_data))
    ELSE [ok |-> TRUE,
          frames |-> ReleaseFrames(frames),
          initial_roi |-> Some([roi_min |-> rb.roi_min, roi_max |-> rb.roi_max]),
          grid |-> g,
          atom_data |->
            [atype \in DOMAIN species_data |->
               [global_positions |-> species_data[atype].global_positions,
                individual_averages |-> species_data[atype].individual_averages,
                histogram_data |->
                  HistogramData(species_data[atype].global_positions, g,
                                rb.roi_min, rb.roi_max)]]]

\* The rest of the load once _calculate_roi_bounds has returned rb.
LoadWithBounds(frames, atom_type_map, rb) ==
  IF ~rb.ok THEN LoadError(rb.error, Some(frames), None, None, <<>>)
  ELSE LoadedFields(frames, rb, GridOf(rb.roi_min, rb.roi_max),
                    _process_frames(frames,
                                    _get_chemical_symbols_mapped(atom_type_map,
                                                                 frames[1].symbols),
                                    rb.roi_min, rb.roi_max))

\* Lines 890-898: the frames are on the object.
LoadWithFrames(frames, roi_definition, atom_type_map) ==
  IF frames = <<>>
    THEN LoadError("No frames loaded", Some(frames), None, None, <<>>)
    ELSE LoadWithBounds(frames, atom_type_map,
                        _calculate_roi_bounds(roi_definition, frames[1].cell))

\* Lines 877-888: the file is read in the given format and sliced.  A slice
\* of step 0 is refused when it is applied: by read() of ase, and for a
\* pickle after the whole list has been assigned to self.frames.
LoadWithSlice(file_format, sl, file, roi_definition, atom_type_map) ==
  IF ~sl.ok THEN LoadError(sl.error, None, None, None, <<>>)
  ELSE IF file_format = Some("pickle")
    THEN IF sl.step = Some(0)
           THEN LoadError("slice step cannot be zero", Some(file), None, None, <<>>)
           ELSE LoadWithFrames(ApplySlice(file, sl), roi_definition, atom_type_map)
  ELSE IF file_format = Some("ase")
    THEN IF sl.step = Some(0)
           THEN LoadError("slice step cannot be zero", None, None, None, <<>>)
           ELSE LoadWithFrames(ApplySlice(file, sl), roi_definition, atom_type_map)
  ELSE LoadError("Unsupported file format", None, None, None, <<>>)

\* INPUT_FILE_CONFIG of the source: format 'ase', slice ":".
INPUT_FILE_CONFIG ==
  Some([format |-> Some("ase"), slice |-> SliceOfString(<<EmptyPart, EmptyPart>>)])

\* file is the trajectory stored at input_config['path'].
load_and_precompute(input_config, file, roi_definition, atom_type_map) ==
  IF input_config = None
    THEN LoadError("No input configuration provided", None, None, None, <<>>)
    ELSE LoadWithSlice(Get(input_config).format, ParseSlice(Get(input_config).slice),
                       file, roi_definition, atom_type_map)

(***************************************************************************)
(* _visualise_histogram.                                                   *)
(***************************************************************************)
\* scipy's gaussian_filter is outside the repository.  The model smooths with
\* a separable kernel that falls off with distance and is cut at sigma cells:
\* weight 2 on the voxel's own index and 1 on each other index in reach, per
\* axis.  The field is only ever used relative to its own minimum and maximum.
KernelWeight(b, c, sg) ==
  IF \E a \in Axes : Abs(c[a] - b[a]) > sg THEN 0
  ELSE (IF c[1] = b[1] THEN 2 ELSE 1) * (IF c[2] = b[2] THEN 2 ELSE 1)
       * (IF c[3] = b[3] THEN 2 ELSE 1)

RECURSIVE WeightedSum(_, _, _, _)
WeightedSum(raw_data, b, sg, S) ==
  IF S = {} THEN 0
  ELSE LET c == CHOOSE x \in S : TRUE
       IN  KernelWeight(b, c, sg) * raw_data[c] + WeightedSum(raw_data, b, sg, S \ {c})

gaussian_filter(raw_data, sg) ==
  [b \in DOMAIN raw_data |-> WeightedSum(raw_data, b, sg, DOMAIN raw_data)]

RECURSIVE Pow(_, _)
Pow(x, g) == IF g = 0 THEN 1 ELSE x * Pow(x, g - 1)

RECURSIVE GCD(_, _)
GCD(a, b) == IF b = 0 THEN a ELSE GCD(b, a % b)

\* in_range with >= at the lower edge for every gamma.
in_range_closed(num, den, L, U, gamma) ==
  255 * num >= L * den /\ 255 * num <= U * den

\* normalized = num / den; lower = L / 255; upper = U / 255
in_range(num, den, L, U, gamma) ==
  IF gamma = 0
    THEN 255 * num > L * den /\ 255 * num <= U * den
    ELSE 255 * num >= L * den /\ 255 * num <= U * den

\* The alpha byte of a voxel inside the band, where 0 <= normalized - lower
\* <= upper - lower.  scaled = P / (Q + 1e-9 * 255 * den) with P / Q the exact
\* quotient: for P > 0 it is just below P / Q, so a product that is a whole
\* number in exact arithmetic truncates to one less.
AlphaInBand(num, den, L, U, O, gamma) ==
  LET P == 255 * num - L * den
      Q == (U - L) * den
      g == GCD(O * 51, 20)
      ON == (O * 51) \div g
      OD == 20 \div g
  IN  IF gamma = 0 THEN (O * 255) \div 100        \* scaled ** 0 = 1, also for 0
      ELSE IF P = 0 \/ O = 0 THEN 0               \* scaled = 0, 0 ** gamma = 0
      ELSE LET top == Pow(P \div GCD(P, Q), gamma) * ON
               bot == Pow(Q \div GCD(P, Q), gamma) * OD
           IN  IF top % bot = 0 THEN top \div bot - 1 ELSE top \div bot

\* alpha = (corrected * max_alpha * 255).astype(uint8); alpha[~in_range] = 0
AlphaOf(num, den, L, U, O, gamma) ==
  IF in_range(num, den, L, U, gamma) THEN AlphaInBand(num, den, L, U, O, gamma) ELSE 0

\* SubData taken from grid index 0 instead of the ROI's lower indices.
SubData_from_zero(processed_data, roi_indices) ==
  [v \in RoiVoxels(roi_indices) |-> processed_data[v]]

SubData(processed_data, roi_indices) ==
  [v \in RoiVoxels(roi_indices) |->
     processed_data[<<roi_indices.xmin + v[1], roi_indices.ymin + v[2],
                      roi_indices.zmin + v[3]>>]]

\* filtered_data without the np.where.
FilteredData_unmasked(sub_data, miller_mask) == sub_data

\* np.where(miller_mask, sub_data, 0) if miller_mask is not None else sub_data
FilteredData(sub_data, miller_mask) ==
  IF miller_mask # None
    THEN [v \in DOMAIN sub_data |-> IF Get(miller_mask)[v] THEN sub_data[v] ELSE 0]
    ELSE sub_data

\* The normalisation with np.ones_like for a field of one density.
Normalized_uniform_ones(filtered_data, data_min, data_max) ==
  IF data_max = data_min
    THEN [den |-> 1, num |-> [v \in DOMAIN filtered_data |-> 1]]
    ELSE [den |-> data_max - data_min,
          num |-> [v \in DOMAIN filtered_data |->
                     Max2(0, Min2(data_max - data_min, filtered_data[v] - data_min))]]

\* The normalized field as numerators over the common denominator den.
Normalized(filtered_data, data_min, data_max) ==
  IF data_max = data_min
    THEN [den |-> 1, num |-> [v \in DOMAIN filtered_data |-> 0]]
    ELSE [den |-> data_max - data_min,
          num |-> [v \in DOMAIN filtered_data |->
                     Max2(0, Min2(data_max - data_min, filtered_data[v] - data_min))]]

\* The same with a single slot: the new entry replaces what was stored.
Remembered_single_slot(smcache, cache_key, processed_data) ==
  [data |-> processed_data,
   cache |-> {[key |-> cache_key, data |-> processed_data]}]

\* self._smoothed_hist_cache[cache_key] = processed_data
Remembered(smcache, cache_key, processed_data) ==
  [data |-> processed_data,
   cache |-> smcache \cup {[key |-> cache_key, data |-> processed_data]}]

\* The same with a cache key made of the raw data only.
ProcessedData_keyed_by_data(raw_data, sg, smcache) ==
  IF \E e \in smcache : e.key[2] = raw_data
    THEN [data |-> (CHOOSE e \in smcache : e.key[2] = raw_data).data,
          cache |-> smcache]
    ELSE Remembered(smcache, <<sg, raw_data>>,
                    IF sg > 0 THEN gaussian_filter(raw_data, sg) ELSE raw_data)

\* The smoothed field of the pass and the smoothing cache after it.
ProcessedData(raw_data, sg, smcache) ==
  IF \E e \in smcache : e.key = <<sg, raw_data>>
    THEN [data |-> (CHOOSE e \in smcache : e.key = <<sg, raw_data>>).data,
          cache |-> smcache]
    ELSE Remembered(smcache, <<sg, raw_data>>,
                    IF sg > 0 THEN gaussian_filter(raw_data, sg) ELSE raw_data)

\* The transfer function and the add_volume call.
\* outcome: "actor" (a volume was added), "nothing" (returned early), or
\* "error" (an exception was caught and printed).
VolumeOfNormalized(normalized, cache, ui, region, actor_fails) ==
  IF actor_fails
    THEN [outcome |-> "error", error |-> "renderer", cache |-> cache]
    ELSE [outcome |-> "actor", cache |-> cache,
          actor |-> [kind |-> "volume",
                     normalized |-> normalized,   \* the colours are cmap(normalized)
                     alpha |-> [v \in DOMAIN normalized.num |->
                                  AlphaOf(normalized.num[v], normalized.den,
                                          ui.density_lower, ui.density_upper,
                                          ui.opacity, ui.gamma)],
                     origin |-> region.phys_bounds[1]]]

\* The Miller filter, the early return and the normalisation.
VolumeOfSub(sub_data, cache, ui, region, actor_fails) ==
  LET miller_mask == region.miller_mask
      visible == IF miller_mask # None
                   THEN {v \in DOMAIN sub_data : Get(miller_mask)[v]}
                   ELSE DOMAIN sub_data
  IN  IF visible = {}
        THEN [outcome |-> "nothing", cache |-> cache]
        ELSE VolumeOfNormalized(
               Normalized(FilteredData(sub_data, miller_mask),
                          MinOf({sub_data[v] : v \in visible}),
                          MaxOf({sub_data[v] : v \in visible})),
               cache, ui, region, actor_fails)

_visualise_histogram(hist_data, ui, sg, region, smcache, actor_fails) ==
  IF "raw_data" \notin DOMAIN hist_data
    THEN [outcome |-> "error", error |-> "KeyError: 'raw_data'", cache |-> smcache]
    ELSE VolumeOfSub(SubData(ProcessedData(hist_data.raw_data, sg, smcache).data,
                             region.roi_indices),
                     ProcessedData(hist_data.raw_data, sg, smcache).cache,
                     ui, region, actor_fails)

(***************************************************************************)
(* _visualise_averages: "actor", "nothing", or "raise" (the exception       *)
(* leaves the method: it has no try/except).                               *)
(***************************************************************************)
_visualise_averages(points, region, actor_fails) ==
  LET roi_min == region.phys_bounds[1]
      roi_max == region.phys_bounds[2]
      in_roi == SelectSeq(points, LAMBDA p : InRoi(p, roi_min, roi_max))
      filtered_points ==
        filter_points_by_miller([i \in DOMAIN in_roi |-> [a \in Axes |-> 2 * in_roi[i][a]]],
                                region.grid_params.cell_center, region.miller_params)
  IN  IF Len(filtered_points) = 0 THEN [outcome |-> "nothing"]
      ELSE IF actor_fails THEN [outcome |-> "raise"]
      ELSE [outcome |-> "actor",
            actor |-> [kind |-> "points", points2 |-> filtered_points]]

(***************************************************************************)
(* update_visualisation: one pass.                                         *)
(***************************************************************************)
\* The species in the order the pass visits them (sorted keys of atom_data).
SpeciesOrder(ad) == SelectSeq(LabelOrder, LAMBDA t : t \in DOMAIN ad)

\* What the pass has done after _visualise_histogram returned r for atype.
AfterHistogram(acc, atype, r) ==
  [rendered |-> IF r.outcome = "actor" THEN (atype :> r.actor) @@ acc.rendered
                ELSE acc.rendered,
   reported |-> IF r.outcome = "error" THEN acc.reported \cup {atype}
                ELSE acc.reported,
   smoothed |-> r.cache,
   raised |-> FALSE]

\* What the pass has done after _visualise_averages returned r for atype.
AfterAverages(acc, atype, r) ==
  [rendered |-> IF r.outcome = "actor" THEN (atype :> r.actor) @@ acc.rendered
                ELSE acc.rendered,
   reported |-> acc.reported,
   smoothed |-> acc.smoothed,
   raised |-> r.outcome = "raise"]

\* The loop without the skip of the Hidden species: a Hidden species is drawn
\* as a histogram.
RECURSIVE VisualiseAll_hidden_drawn(_, _, _, _, _, _, _, _)
VisualiseAll_hidden_drawn(order, md, tf, sg, ad, region, fails, acc) ==
  IF order = <<>> \/ acc.raised THEN acc
  ELSE VisualiseAll_hidden_drawn(Tail(order), md, tf, sg, ad, region, fails,
         IF md[Head(order)] \in {"Hidden", "Histogram"}
           THEN AfterHistogram(acc, Head(order),
                  _visualise_histogram(ad[Head(order)].histogram_data, tf[Head(order)],
                                       sg, region, acc.smoothed, Head(order) \in fails))
         ELSE AfterAverages(acc, Head(order),
                _visualise_averages(ad[Head(order)].individual_averages, region,
                                    Head(order) \in fails)))

\* The loop over the species; acc carries what the pass has done so far and
\* stops changing once an exception has left a _visualise_* call.
RECURSIVE VisualiseAll(_, _, _, _, _, _, _, _)
VisualiseAll(order, md, tf, sg, ad, region, fails, acc) ==
  IF order = <<>> \/ acc.raised THEN acc
  ELSE VisualiseAll(Tail(order), md, tf, sg, ad, region, fails,
         IF md[Head(order)] = "Hidden" THEN acc
         ELSE IF md[Head(order)] = "Histogram"
           THEN AfterHistogram(acc, Head(order),
                  _visualise_histogram(ad[Head(order)].histogram_data, tf[Head(order)],
                                       sg, region, acc.smoothed, Head(order) \in fails))
         ELSE AfterAverages(acc, Head(order),
                _visualise_averages(ad[Head(order)].individual_averages, region,
                                    Head(order) \in fails)))

\* The fields a pass leaves: region is what _precompute_region_data returned,
\* done what the loop over the species did, read the widget values it used.
PassResult(region, hit, key, done, cam, read) ==
  [region_cache |-> Some(region),
   last_hash |-> Some(key),
   region_data |-> Some(region),
   cache_hit |-> hit,
   smoothed_hist_cache |-> done.smoothed,
   rendered_actors |-> done.rendered,
   reported |-> done.reported,
   raised |-> done.raised,
   camera |-> IF done.raised THEN cam ELSE Some(region.focal_point),
   pass_read |-> Some(read)]

\* The pass once the region data are there.
PassOver(region, hit, key, read, ad, smc, fails, cam) ==
  PassResult(region, hit, key,
             VisualiseAll(SpeciesOrder(ad), read.modes, read.tfui, read.sigma, ad,
                          region, fails,
                          [rendered |-> <<>>, reported |-> {}, smoothed |-> smc,
                           raised |-> FALSE]),
             cam, read)

\* The state a pass leaves, from the state it starts in.
UpdateVisualisation(sl, mi, sg, md, tf, g, ad, rc, lh, smc, fails, cam) ==
  PassOver(_precompute_region_data(_get_roi_indices(sl), _get_grid_parameters(g),
                                   mi, rc, lh),
           CacheHit(rc, lh, _get_roi_indices(sl), _get_miller_parameters(mi)),
           CacheKey(_get_roi_indices(sl), _get_miller_parameters(mi)),
           [sliders |-> sl, miller |-> mi, sigma |-> sg, modes |-> md, tfui |-> tf],
           ad, smc, fails, cam)

(***************************************************************************)
(* Construction (__init__): the widgets at their defaults, the load, and   *)
(* the first pass.                                                         *)
(***************************************************************************)
\* Most frames a trajectory of the model has.
MaxFrames == 2

CellSide == 2 * (GRID_RESOLUTION - 1)
CubicCell == <<<<CellSide, 0, 0>>, <<0, CellSide, 0>>, <<0, 0, CellSide>>>>

DefaultSliders ==
  [xmin |-> 0, xmax |-> GRID_RESOLUTION - 1, ymin |-> 0, ymax |-> GRID_RESOLUTION - 1,
   zmin |-> 0, zmax |-> GRID_RESOLUTION - 1]
\* MILLER_INDEX_DEFAULT, MILLER_THICKNESS_DEFAULT, MILLER_OFFSET_DEFAULT
DefaultMiller ==
  [use_miller |-> FALSE, h |-> 1, k |-> 1, l |-> 1, thickness |-> 2, offset |-> 0]
\* GAUSSIAN_SIGMA = 1.5, given to an integer slider
DefaultSigma == 1
\* DENSITY_LOWER_DEFAULT, DENSITY_UPPER_DEFAULT, OPACITY_DEFAULT, GAMMA_DEFAULT
DefaultTf == [density_lower |-> 77, density_upper |-> 178, opacity |-> 100, gamma |-> 0]

\* A trajectory of three atoms (labels H, Li and Be, shown as Li, S and Br) in
\* a cubic cell, every position inside the cell.
DefaultInput ==
  [frames |-> <<[symbols |-> <<"H", "Li", "Be">>, cell |-> CubicCell,
                 positions |-> <<<<0, 0, 0>>, <<CellSide, CellSide, CellSide>>,
                                 <<1, 0, 1>>>>],
                [symbols |-> <<"H", "Li", "Be">>, cell |-> CubicCell,
                 positions |-> <<<<1, 1, 1>>, <<0, 1, CellSide>>, <<0, 0, 1>>>>]>>,
   roi_definition |-> None,
   config |-> INPUT_FILE_CONFIG,
   atom_type_map |-> ATOM_TYPE_MAP]

InitWidgets ==
  /\ sliders = DefaultSliders
  /\ miller = DefaultMiller
  /\ sigma = DefaultSigma
  /\ timeouts = {}
  /\ sinceChange = UPDATE_DELAY_TICKS
  /\ changesInBurst = 0
  /\ passesInBurst = 0

\* The state in __init__ just before _init_atom_settings loads the data.
Constructing(inp, fails) ==
  /\ InitWidgets
  /\ phase = "constructing"
  /\ input = inp
  /\ renderer_fails = fails
  /\ modes = <<>>
  /\ tfui = <<>>
  /\ grid = None
  /\ atom_data = <<>>
  /\ self_frames = None
  /\ initial_roi = None
  /\ region_cache = None
  /\ last_hash = None
  /\ smoothed_hist_cache = {}
  /\ region_data = None
  /\ cache_hit = FALSE
  /\ rendered_actors = <<>>
  /\ reported = {}
  /\ raised = FALSE
  /\ camera = None
  /\ pass_read = None

\* The variables a pass assigns, given what the pass returned.
PassFields(r) ==
  /\ region_cache = r.region_cache
  /\ last_hash = r.last_hash
  /\ smoothed_hist_cache = r.smoothed_hist_cache
  /\ region_data = r.region_data
  /\ cache_hit = r.cache_hit
  /\ rendered_actors = r.rendered_actors
  /\ reported = r.reported
  /\ raised = r.raised
  /\ camera = r.camera
  /\ pass_read = r.pass_read

\* The pass at the end of __init__: every species Hidden, nothing cached.
ConstructionPass(ld, fails) ==
  UpdateVisualisation(DefaultSliders, DefaultMiller, DefaultSigma,
                      [t \in DOMAIN ld.atom_data |-> "Hidden"],
                      [t \in DOMAIN ld.atom_data |-> DefaultTf],
                      ld.grid, ld.atom_data, None, None, {}, fails, None)

\* The state after __init__ has returned, ld being what the load produced.
ConstructedFrom(inp, fails, ld) ==
  /\ InitWidgets
  /\ phase = "ready"
  /\ input = inp
  /\ renderer_fails = fails
  /\ modes = [t \in DOMAIN ld.atom_data |-> "Hidden"]
  /\ tfui = [t \in DOMAIN ld.atom_data |-> DefaultTf]
  /\ grid = ld.grid
  /\ atom_data = ld.atom_data
  /\ self_frames = ld.frames
  /\ initial_roi = ld.initial_roi
  /\ PassFields(ConstructionPass(ld, fails))

Constructed(inp, fails) ==
  ConstructedFrom(inp, fails,
                  load_and_precompute(inp.config, inp.frames, inp.roi_definition,
                                      inp.atom_type_map))

\* The pass that follows the first burst of changes, which set the modes md,
\* the Miller controls mi and the sigma sg; first is what the pass at the end
\* of __init__ left.
BurstPass(ld, fails, md, mi, sg, first) ==
  UpdateVisualisation(DefaultSliders, mi, sg, md,
                      [t \in DOMAIN ld.atom_data |-> DefaultTf],
                      ld.grid, ld.atom_data, first.region_cache, first.last_hash,
                      first.smoothed_hist_cache, fails, first.camera)

\* The state after __init__, one burst of at least two changes (to the modes,
\* the Miller controls and the sigma) and the pass that followed it.
AfterBurstFrom(inp, fails, ld, md, mi, sg) ==
  /\ sliders = DefaultSliders
  /\ miller = mi
  /\ sigma = sg
  /\ timeouts = {}
  /\ sinceChange = UPDATE_DELAY_TICKS
  /\ changesInBurst = 2
  /\ passesInBurst = 1
  /\ phase = "ready"
  /\ input = inp
  /\ renderer_fails = fails
  /\ modes = md
  /\ tfui = [t \in DOMAIN ld.atom_data |-> DefaultTf]
  /\ grid = ld.grid
  /\ atom_data = ld.atom_data
  /\ self_frames = ld.frames
  /\ initial_roi = ld.initial_roi
  /\ PassFields(BurstPass(ld, fails, md, mi, sg, ConstructionPass(ld, fails)))

AfterBurst(inp, fails, md, mi, sg) ==
  AfterBurstFrom(inp, fails,
                 load_and_precompute(inp.config, inp.frames, inp.roi_definition,
                                      inp.atom_type_map),
                 md, mi, sg)

\* __init__ once load_and_precompute has returned ld: the widgets of the
\* species are created and the first pass runs; a load error leaves __init__.
InitWith(ld) ==
  IF ld.ok
    THEN /\ phase' = "ready"
         /\ grid' = ld.grid
         /\ atom_data' = ld.atom_data
         /\ self_frames' = ld.frames
         /\ initial_roi' = ld.initial_roi
         /\ modes' = [t \in DOMAIN ld.atom_data |-> "Hidden"]
         /\ tfui' = [t \in DOMAIN ld.atom_data |-> DefaultTf]
         /\ region_cache' = ConstructionPass(ld, renderer_fails).region_cache
         /\ last_hash' = ConstructionPass(ld, renderer_fails).last_hash
         /\ smoothed_hist_cache' = ConstructionPass(ld, renderer_fails).smoothed_hist_cache
         /\ region_data' = ConstructionPass(ld, renderer_fails).region_data
         /\ cache_hit' = ConstructionPass(ld, renderer_fails).cache_hit
         /\ rendered_actors' = ConstructionPass(ld, renderer_fails).rendered_actors
         /\ reported' = ConstructionPass(ld, renderer_fails).reported
         /\ raised' = ConstructionPass(ld, renderer_fails).raised
         /\ camera' = ConstructionPass(ld, renderer_fails).camera
         /\ pass_read' = ConstructionPass(ld, renderer_fails).pass_read
         /\ UNCHANGED <<input, renderer_fails, sliders, miller, sigma, timerVars>>
    ELSE /\ phase' = "load_failed"
         /\ grid' = ld.grid
         /\ atom_data' = ld.atom_data
         /\ self_frames' = ld.frames
         /\ initial_roi' = ld.initial_roi
         /\ UNCHANGED <<input, renderer_fails, uiVars, timerVars, passVars>>

__init__ ==
  /\ phase = "constructing"
  /\ InitWith(load_and_precompute(input.config, input.frames, input.roi_definition,
                               input.atom_type_map))

(***************************************************************************)
(* The update timer and schedule_update.                                   *)
(***************************************************************************)
\* schedule_update without the stop: the new timeout is queued behind a
\* pending one.
schedule_update_enqueue(t) == t \cup {UPDATE_DELAY_TICKS}

\* if self.update_timer.isActive(): stop(); then start()
schedule_update(t) ==
  LET stopped == IF t # {} THEN {} ELSE t
  IN  stopped \cup {UPDATE_DELAY_TICKS}

\* A parameter change reaches schedule_update: the timer restarts, and the
\* change joins the current burst when it comes less than the delay after the
\* previous one.  A timeout that has expired fires before the next event.
Scheduled(t) ==
  /\ \A r \in timeouts : r > 0
  /\ timeouts' = t
  /\ sinceChange' = 0
  /\ IF changesInBurst > 0 /\ sinceChange < UPDATE_DELAY_TICKS
       THEN /\ changesInBurst' = Min2(changesInBurst + 1, 2)
            /\ passesInBurst' = passesInBurst
       ELSE /\ changesInBurst' = 1
            /\ passesInBurst' = 0

\* One tick of the clock; an expired timeout fires before time moves on.
Tick ==
  /\ phase = "ready"
  /\ timeouts # {} \/ sinceChange < UPDATE_DELAY_TICKS
  /\ \A r \in timeouts : r > 0
  /\ timeouts' = {r - 1 : r \in timeouts}
  /\ sinceChange' = Min2(sinceChange + 1, UPDATE_DELAY_TICKS)
  /\ UNCHANGED <<changesInBurst, passesInBurst, uiVars, loadVars, passVars>>

\* The pass, as the assignments to the variables a pass changes.
PassFieldsNext(r) ==
  /\ region_cache' = r.region_cache
  /\ last_hash' = r.last_hash
  /\ smoothed_hist_cache' = r.smoothed_hist_cache
  /\ region_data' = r.region_data
  /\ cache_hit' = r.cache_hit
  /\ rendered_actors' = r.rendered_actors
  /\ reported' = r.reported
  /\ raised' = r.raised
  /\ camera' = r.camera
  /\ pass_read' = r.pass_read

RunPass ==
  PassFieldsNext(UpdateVisualisation(sliders, miller, sigma, modes, tfui, grid,
                                     atom_data, region_cache, last_hash,
                                     smoothed_hist_cache, renderer_fails, camera))

\* update_timer.timeout -> update_visualisation (single shot)
update_visualisation ==
  /\ phase = "ready"
  /\ 0 \in timeouts
  /\ timeouts' = timeouts \ {0}
  /\ passesInBurst' = Min2(passesInBurst + 1, 2)
  /\ RunPass
  /\ UNCHANGED <<sinceChange, changesInBurst, uiVars, loadVars>>

(***************************************************************************)
(* The ROI slider handlers.  A slider's valueChanged reaches               *)
(* schedule_update (connected when the slider is created) and then the     *)
(* handler, which moves the opposite slider with its signals blocked and   *)
(* calls schedule_update again.                                            *)
(***************************************************************************)
\* update_x_min without the clamping of the max slider.
update_x_min_unclamped(val) ==
  /\ phase = "ready" /\ val # sliders.xmin
  /\ sliders' = [sliders EXCEPT !.xmin = val]
  /\ Scheduled(schedule_update(schedule_update(timeouts)))
  /\ UNCHANGED <<miller, sigma, modes, tfui, loadVars, passVars>>

update_x_min(val) ==
  /\ phase = "ready" /\ val # sliders.xmin
  /\ sliders' = [sliders EXCEPT !.xmin = val, !.xmax = IF val > @ THEN val ELSE @]
  /\ Scheduled(schedule_update(schedule_update(timeouts)))
  /\ UNCHANGED <<miller, sigma, modes, tfui, loadVars, passVars>>

update_x_max(val) ==
  /\ phase = "ready" /\ val # sliders.xmax
  /\ sliders' = [sliders EXCEPT !.xmax = val, !.xmin = IF val < @ THEN val ELSE @]
  /\ Scheduled(schedule_update(schedule_update(timeouts)))
  /\ UNCHANGED <<miller, sigma, modes, tfui, loadVars, passVars>>

\* update_y_min that clamps the max slider of the x axis.
update_y_min_other_axis(val) ==
  /\ phase = "ready" /\ val # sliders.ymin
  /\ sliders' = [sliders EXCEPT !.ymin = val, !.xmax = IF val > @ THEN val ELSE @]
  /\ Scheduled(schedule_update(schedule_update(timeouts)))
  /\ UNCHANGED <<miller, sigma, modes, tfui, loadVars, passVars>>

update_y_min(val) ==
  /\ phase = "ready" /\ val # sliders.ymin
  /\ sliders' = [sliders EXCEPT !.ymin = val, !.ymax = IF val > @ THEN val ELSE @]
  /\ Scheduled(schedule_update(schedule_update(timeouts)))
  /\ UNCHANGED <<miller, sigma, modes, tfui, loadVars, passVars>>

update_y_max(val) ==
  /\ phase = "ready" /\ val # sliders.ymax
  /\ sliders' = [sliders EXCEPT !.ymax = val, !.ymin = IF val < @ THEN val ELSE @]
  /\ Scheduled(schedule_update(schedule_update(timeouts)))
  /\ UNCHANGED <<miller, sigma, modes, tfui, loadVars, passVars>>

update_z_min(val) ==
  /\ phase = "ready" /\ val # sliders.zmin
  /\ sliders' = [sliders EXCEPT !.zmin = val, !.zmax = IF val > @ THEN val ELSE @]
  /\ Scheduled(schedule_update(schedule_update(timeouts)))
  /\ UNCHANGED <<miller, sigma, modes, tfui, loadVars, passVars>>

update_z_max(val) ==
  /\ phase = "ready" /\ val # sliders.zmax
  /\ sliders' = [sliders EXCEPT !.zmax = val, !.zmin = IF val < @ THEN val ELSE @]
  /\ Scheduled(schedule_update(schedule_update(timeouts)))
  /\ UNCHANGED <<miller, sigma, modes, tfui, loadVars, passVars>>

(***************************************************************************)
(* The Miller controls: the checkbox reaches toggle_miller_controls, the   *)
(* spin boxes reach schedule_update directly.                              *)
(***************************************************************************)
toggle_miller_controls(state) ==
  /\ phase = "ready" /\ state # miller.use_miller
  /\ miller' = [miller EXCEPT !.use_miller = state]
  /\ Scheduled(schedule_update(timeouts))
  /\ UNCHANGED <<sliders, sigma, modes, tfui, loadVars, passVars>>

miller_h_changed(val) ==
  /\ phase = "ready" /\ val # miller.h
  /\ miller' = [miller EXCEPT !.h = val]
  /\ Scheduled(schedule_update(timeouts))
  /\ UNCHANGED <<sliders, sigma, modes, tfui, loadVars, passVars>>

miller_k_changed(val) ==
  /\ phase = "ready" /\ val # miller.k
  /\ miller' = [miller EXCEPT !.k = val]
  /\ Scheduled(schedule_update(timeouts))
  /\ UNCHANGED <<sliders, sigma, modes, tfui, loadVars, passVars>>

miller_l_changed(val) ==
  /\ phase = "ready" /\ val # miller.l
  /\ miller' = [miller EXCEPT !.l = val]
  /\ Scheduled(schedule_update(timeouts))
  /\ UNCHANGED <<sliders, sigma, modes, tfui, loadVars, passVars>>

miller_thickness_changed(val) ==
  /\ phase = "ready" /\ val # miller.thickness
  /\ miller' = [miller EXCEPT !.thickness = val]
  /\ Scheduled(schedule_update(timeouts))
  /\ UNCHANGED <<sliders, sigma, modes, tfui, loadVars, passVars>>

miller_offset_changed(val) ==
  /\ phase = "ready" /\ val # miller.offset
  /\ miller' = [miller EXCEPT !.offset = val]
  /\ Scheduled(schedule_update(timeouts))
  /\ UNCHANGED <<sliders, sigma, modes, tfui, loadVars, passVars>>

(***************************************************************************)
(* The per-species widgets and the sigma slider.  The mode combo reaches   *)
(* update_atom_ui_visibility (widget visibility only) and schedule_update; *)
(* the sliders and the spin box reach schedule_update.                     *)
(***************************************************************************)
mode_changed(atype, mode) ==
  /\ phase = "ready" /\ atype \in DOMAIN modes /\ mode # modes[atype]
  /\ modes' = [modes EXCEPT ![atype] = mode]
  /\ Scheduled(schedule_update(timeouts))
  /\ UNCHANGED <<sliders, miller, sigma, tfui, loadVars, passVars>>

sigma_changed(val) ==
  /\ phase = "ready" /\ val # sigma
  /\ sigma' = val
  /\ Scheduled(schedule_update(timeouts))
  /\ UNCHANGED <<sliders, miller, modes, tfui, loadVars, passVars>>

density_lower_changed(atype, val) ==
  /\ phase = "ready" /\ atype \in DOMAIN tfui /\ val # tfui[atype].density_lower
  /\ tfui' = [tfui EXCEPT ![atype].density_lower = val]
  /\ Scheduled(schedule_update(timeouts))
  /\ UNCHANGED <<sliders, miller, sigma, modes, loadVars, passVars>>

density_upper_changed(atype, val) ==
  /\ phase = "ready" /\ atype \in DOMAIN tfui /\ val # tfui[atype].density_upper
  /\ tfui' = [tfui EXCEPT ![atype].density_upper = val]
  /\ Scheduled(schedule_update(timeouts))
  /\ UNCHANGED <<sliders, miller, sigma, modes, loadVars, passVars>>

opacity_changed(atype, val) ==
  /\ phase = "ready" /\ atype \in DOMAIN tfui /\ val # tfui[atype].opacity
  /\ tfui' = [tfui EXCEPT ![atype].opacity = val]
  /\ Scheduled(schedule_update(timeouts))
  /\ UNCHANGED <<sliders, miller, sigma, modes, loadVars, passVars>>

gamma_changed(atype, val) ==
  /\ phase = "ready" /\ atype \in DOMAIN tfui /\ val # tfui[atype].gamma
  /\ tfui' = [tfui EXCEPT ![atype].gamma = val]
  /\ Scheduled(schedule_update(timeouts))
  /\ UNCHANGED <<sliders, miller, sigma, modes, loadVars, passVars>>

(***************************************************************************)
(* The ROI sliders, the timer and the passes.                              *)
(***************************************************************************)
InitReady == Constructed(DefaultInput, {})

NextROI ==
  \/ \E val \in GridIndex : update_x_min(val)
  \/ \E val \in GridIndex : update_x_max(val)
  \/ \E val \in GridIndex : update_y_min(val)
  \/ \E val \in GridIndex : update_y_max(val)
  \/ \E val \in GridIndex : update_z_min(val)
  \/ \E val \in GridIndex : update_z_max(val)
  \/ Tick
  \/ update_visualisation

SpecROI == InitReady /\ [][NextROI]_vars

(***************************************************************************)
(* The Miller controls, the timer and the passes, with one species shown   *)
(* as a histogram and the other as averaged positions.                     *)
(***************************************************************************)
InitRegion ==
  AfterBurst(DefaultInput, {},
             [Br |-> "Hidden", Li |-> "Histogram", S |-> "Averaged Positions"],
             DefaultMiller, DefaultSigma)

NextRegion ==
  \/ \E state \in BOOLEAN : toggle_miller_controls(state)
  \/ \E val \in MillerIndexValues : miller_h_changed(val)
  \/ \E val \in MillerIndexValues : miller_k_changed(val)
  \/ \E val \in MillerIndexValues : miller_l_changed(val)
  \/ \E val \in MillerThicknessValues : miller_thickness_changed(val)
  \/ \E val \in MillerOffsetValues : miller_offset_changed(val)
  \/ Tick
  \/ update_visualisation

SpecRegion == InitRegion /\ [][NextRegion]_vars

(***************************************************************************)
(* The mode combos, the timer and the passes, with a renderer whose        *)
(* add_volume / add_mesh call raises for the species in renderer_fails.    *)
(***************************************************************************)
Species == {"Br", "Li", "S"}

InitPass == \E fails \in SUBSET Species : Constructed(DefaultInput, fails)

NextPass ==
  \/ \E atype \in Species, mode \in Modes : mode_changed(atype, mode)
  \/ \E val \in SigmaValues : sigma_changed(val)
  \/ Tick
  \/ update_visualisation

SpecPass == InitPass /\ [][NextPass]_vars

(***************************************************************************)
(* The sigma slider and the mode combos of two species, the timer and the  *)
(* passes, with a renderer that does not fail.                             *)
(***************************************************************************)
InitSmooth == Constructed(DefaultInput, {})

NextSmooth ==
  \/ \E val \in SigmaValues : sigma_changed(val)
  \/ \E atype \in {"Li", "S"}, mode \in Modes : mode_changed(atype, mode)
  \/ Tick
  \/ update_visualisation

SpecSmooth == InitSmooth /\ [][NextSmooth]_vars

(***************************************************************************)
(* The transfer-function widgets of the species shown as a histogram, with *)
(* Miller slicing on, the timer and the passes.                            *)
(***************************************************************************)
\* Two slabs along (1,1,1): one that leaves out the densest voxel, one that
\* holds three different densities.
TFMillerSettings ==
  {[use_miller |-> TRUE, h |-> 1, k |-> 1, l |-> 1, thickness |-> 2, offset |-> 2],
   [use_miller |-> TRUE, h |-> 1, k |-> 1, l |-> 1, thickness |-> 4, offset |-> 1]}

InitTF ==
  \E mi \in TFMillerSettings :
    AfterBurst(DefaultInput, {},
               [Br |-> "Hidden", Li |-> "Histogram", S |-> "Hidden"],
               mi, DefaultSigma)

NextTF ==
  \/ \E val \in DensityLowerValues : density_lower_changed("Li", val)
  \/ \E val \in DensityUpperValues : density_upper_changed("Li", val)
  \/ \E val \in OpacityValues : opacity_changed("Li", val)
  \/ \E val \in GammaValues : gamma_changed("Li", val)
  \/ Tick
  \/ update_visualisation

SpecTF == InitTF /\ [][NextTF]_vars

(***************************************************************************)
(* Construction from a trajectory, then the mode combos, the timer and the *)
(* passes.                                                                 *)
(***************************************************************************)
\* Positions the first atom takes: two inside the cell (one of them on its
\* upper faces) and one outside it; and positions the second atom takes.
LoadPositions == {<<0, 0, 0>>, <<CellSide, 1, CellSide>>, <<-1, 0, 1>>}
SecondPositions == {<<0, 0, 0>>, <<-1, 0, 1>>}

LoadSymbols == {<<"H", "Li">>, <<"H", "H">>}

Trajectories ==
  UNION {[1 .. nf -> [symbols : {sy}, cell : {CubicCell},
                      positions : LoadPositions \X SecondPositions]] :
           <<nf, sy>> \in (0 .. MaxFrames) \X LoadSymbols}

LoadInputs ==
  [frames : Trajectories, roi_definition : {None}, config : {INPUT_FILE_CONFIG},
   atom_type_map : {ATOM_TYPE_MAP}]

InitLoad == \E inp \in LoadInputs : Constructing(inp, {})

NextLoad ==
  \/ __init__
  \/ \E atype \in {"Li", "S"}, mode \in {"Hidden", "Histogram"} : mode_changed(atype, mode)
  \/ Tick
  \/ update_visualisation

SpecLoad == InitLoad /\ [][NextLoad]_vars

(***************************************************************************)
(* Construction under every kind of configuration: the input config (file  *)
(* format and frame slice), the ROI definition and the atom type map.      *)
(***************************************************************************)
FileFormats == {Some("ase"), Some("pickle"), Some("xyz"), None}

\* ":", "::2", "1:", ":0", "1", "0:1:1:1", "a:b", "::0", slice(None),
\* slice(0, 1) and a value that is neither a string nor a slice.
SliceValues ==
  {SliceOfString(<<EmptyPart, EmptyPart>>),
   SliceOfString(<<EmptyPart, EmptyPart, IntPart(2)>>),
   SliceOfString(<<IntPart(1), EmptyPart>>),
   SliceOfString(<<EmptyPart, IntPart(0)>>),
   SliceOfString(<<IntPart(1)>>),
   SliceOfString(<<IntPart(0), IntPart(1), IntPart(1), IntPart(1)>>),
   SliceOfString(<<OtherPart, OtherPart>>),
   SliceOfString(<<EmptyPart, EmptyPart, IntPart(0)>>),
   SliceObject(None, None, None),
   SliceObject(Some(0), Some(1), None),
   OtherValue}

InputConfigs ==
  {None} \cup {Some(c) : c \in [format : FileFormats, slice : SliceValues]}

\* A cell whose second vector leans back along x.
ShearedCell == <<<<CellSide, 0, 0>>, <<-CellSide, CellSide, 0>>, <<0, 0, CellSide>>>>

\* The default trajectory; one in the same cell with no atom on the cell's
\* upper faces; and one in the sheared cell.
InnerFrames ==
  <<[symbols |-> <<"H", "Li", "Be">>, cell |-> CubicCell,
     positions |-> <<<<1, 1, 1>>, <<0, 1, 1>>, <<1, 0, 1>>>>],
    [symbols |-> <<"H", "Li", "Be">>, cell |-> CubicCell,
     positions |-> <<<<1, 0, 0>>, <<0, 0, 0>>, <<1, 1, 0>>>>]>>
ShearedFrames ==
  <<[symbols |-> <<"H", "Li", "Be">>, cell |-> ShearedCell,
     positions |-> <<<<-1, 1, 1>>, <<0, 0, 0>>, <<CellSide, CellSide, CellSide>>>>],
    [symbols |-> <<"H", "Li", "Be">>, cell |-> ShearedCell,
     positions |-> <<<<-CellSide, CellSide, 0>>, <<1, 1, 1>>, <<0, 1, 0>>>>]>>
ConfigTrajectories == {DefaultInput.frames, InnerFrames, ShearedFrames}

\* Per-axis bounds of a fractional declaration (fractions of the cell
\* vector) and of an absolute one (lengths): the whole side, the same
\* inverted, a zero extent, and twice the side.
FractionalPairs == {<<0, 1>>, <<1, 0>>, <<1, 1>>, <<0, 2>>}
AbsolutePairs ==
  {<<0, CellSide>>, <<CellSide, 0>>, <<CellSide, CellSide>>, <<0, 2 * CellSide>>}

FractionalBounds ==
  {<<px, <<0, 1>>, pz>> : px \in FractionalPairs, pz \in {<<0, 1>>, <<1, 1>>}}
AbsoluteBounds ==
  {<<px, <<0, CellSide>>, pz>> :
     px \in AbsolutePairs, pz \in {<<0, CellSide>>, <<CellSide, CellSide>>}}

\* ROI_DEFINITION: None, or a dict with an optional 'type' and optional
\* 'bounds'.
RoiDefinitions ==
  {None}
  \cup {Some([type |-> Some("fractional"), bounds |-> Some(b)]) : b \in FractionalBounds}
  \cup {Some([type |-> ty, bounds |-> Some(b)]) :
          ty \in {Some("absolute"), None}, b \in AbsoluteBounds}
  \cup {Some([type |-> ty, bounds |-> None]) :
          ty \in {Some("fractional"), Some("absolute"), Some("spherical"), None}}
  \cup {Some([type |-> Some("spherical"), bounds |-> Some(<<<<0, 1>>, <<0, 1>>, <<0, 1>>>>)])}

\* A trajectory with a label that ATOM_TYPE_MAP does not rename (O), one it
\* renames (H to Li), and one it renames to a label it does not have (Li to S).
MixedFrames ==
  <<[symbols |-> <<"H", "Li", "O", "H">>, cell |-> CubicCell,
     positions |-> <<<<0, 0, 0>>, <<1, 1, 1>>, <<1, 0, 1>>, <<0, 1, 0>>>>]>>

ConfigInputs ==
  [frames : {DefaultInput.frames}, roi_definition : {None}, config : InputConfigs,
   atom_type_map : {ATOM_TYPE_MAP}]
  \cup [frames : ConfigTrajectories, roi_definition : RoiDefinitions,
        config : {INPUT_FILE_CONFIG}, atom_type_map : {ATOM_TYPE_MAP}]
  \cup [frames : {MixedFrames, DefaultInput.frames}, roi_definition : {None},
        config : {INPUT_FILE_CONFIG}, atom_type_map : {None, ATOM_TYPE_MAP}]

InitConfig == \E inp \in ConfigInputs : Constructing(inp, {})

NextConfig ==
  \/ __init__
  \/ \E atype \in {"Li", "S"}, mode \in Modes : mode_changed(atype, mode)
  \/ Tick
  \/ update_visualisation

SpecConfig == InitConfig /\ [][NextConfig]_vars

(***************************************************************************)
(* The Miller controls and the x sliders over a ROI declared around the    *)
(* origin, so that the cell centre of the grid is (0, 0, 0).               *)
(***************************************************************************)
CentredInput ==
  [frames |-> <<[symbols |-> <<"H", "Li", "Be">>, cell |-> CubicCell,
                 positions |-> <<<<0, 0, 0>>, <<-CellSide, CellSide, 0>>,
                                 <<1, 0, -1>>>>],
                [symbols |-> <<"H", "Li", "Be">>, cell |-> CubicCell,
                 positions |-> <<<<-1, 1, 1>>, <<0, -1, CellSide>>, <<0, 0, 1>>>>]>>,
   roi_definition |->
     Some([type |-> Some("absolute"),
           bounds |-> Some([a \in Axes |-> <<-CellSide, CellSide>>])]),
   config |-> INPUT_FILE_CONFIG,
   atom_type_map |-> ATOM_TYPE_MAP]

\* Thickness and offset values of this specification: the defaults, a slab
\* whose face passes through the centres of the voxels next to the central
\* ones, a slab shifted by half its thickness, and a slab around the voxels
\* next to the central ones.
MaskThicknessValues == {2, 4 * CellSide}
MaskOffsetValues == {-1, 0, 2 * CellSide}

InitMask ==
  AfterBurst(CentredInput, {},
             [Br |-> "Hidden", Li |-> "Histogram", S |-> "Averaged Positions"],
             [DefaultMiller EXCEPT !.l = 0], DefaultSigma)

NextMask ==
  \/ \E state \in BOOLEAN : toggle_miller_controls(state)
  \/ \E val \in MillerIndexValues : miller_h_changed(val)
  \/ \E val \in MillerIndexValues : miller_k_changed(val)
  \/ \E val \in MaskThicknessValues : miller_thickness_changed(val)
  \/ \E val \in MaskOffsetValues : miller_offset_changed(val)
  \/ \E val \in GridIndex : update_x_min(val)
  \/ Tick
  \/ update_visualisation

SpecMask == InitMask /\ [][NextMask]_vars

(***************************************************************************)
(* One control of each kind (sigma, ROI, Miller, threshold, mode), the     *)
(* timer and the passes, with a renderer that does not fail.               *)
(***************************************************************************)
StoreLowerValues == {0, 77}

InitStore == Constructed(DefaultInput, {})

NextStore ==
  \/ \E val \in SigmaValues : sigma_changed(val)
  \/ \E val \in GridIndex : update_x_min(val)
  \/ \E state \in BOOLEAN : toggle_miller_controls(state)
  \/ \E val \in StoreLowerValues : density_lower_changed("Li", val)
  \/ \E mode \in Modes : mode_changed("Li", mode)
  \/ Tick
  \/ update_visualisation

SpecStore == InitStore /\ [][NextStore]_vars

(***************************************************************************)
(* The transfer-function widgets of the species shown as a histogram and   *)
(* the Miller check box, whose default slab holds a single voxel, the      *)
(* timer and the passes.                                                   *)
(***************************************************************************)
UniformLowerValues == {0, 255}
UniformUpperValues == {0, 255}

InitUniform ==
  AfterBurst(DefaultInput, {}, [Br |-> "Hidden", Li |-> "Histogram", S |-> "Hidden"],
             DefaultMiller, DefaultSigma)

NextUniform ==
  \/ \E state \in BOOLEAN : toggle_miller_controls(state)
  \/ \E val \in UniformLowerValues : density_lower_changed("Li", val)
  \/ \E val \in UniformUpperValues : density_upper_changed("Li", val)
  \/ \E val \in OpacityValues : opacity_changed("Li", val)
  \/ \E val \in GammaValues : gamma_changed("Li", val)
  \/ Tick
  \/ update_visualisation

SpecUniform == InitUniform /\ [][NextUniform]_vars

RoiOrdered(roi_indices) ==
  /\ \A f \in DOMAIN roi_indices : roi_indices[f] \in GridIndex
  /\ roi_indices.xmin <= roi_indices.xmax
  /\ roi_indices.ymin <= roi_indices.ymax
  /\ roi_indices.zmin <= roi_indices.zmax

\* C1: after any sequence of moves of the six ROI sliders, every axis has
\* min index <= max index with both indices in [0, N-1], in the sliders
\* themselves and in the ROI indices every update pass has read from them.
C1_RoiSlidersOrdered ==
  /\ RoiOrdered(sliders)
  /\ region_data # None => RoiOrdered(Get(region_data).roi_indices)

\* C1 witness: after moves on all three axes (x min pushed up to the top
\* index, y max pulled down to 0, z left whole) a pass has read the sliders.
C1_Witness ==
  /\ sliders.xmin = GRID_RESOLUTION - 1 /\ sliders.xmax = GRID_RESOLUTION - 1
  /\ sliders.ymin = 0 /\ sliders.ymax = 0
  /\ region_data # None /\ Get(region_data).roi_indices = sliders
  /\ passesInBurst = 1

\* C3: schedule_update restarts the single-shot timer, so at most one update
\* is pending and it expires UPDATE_DELAY after the latest change; a burst of
\* changes, each less than the delay after the previous one, has caused no
\* pass while its timer is pending and exactly one pass once the timer is no
\* longer pending, however many changes it had.
C3_DebounceOnePass ==
  /\ Cardinality(timeouts) <= 1
  /\ \A r \in timeouts : r = UPDATE_DELAY_TICKS - sinceChange
  /\ passesInBurst <= 1
  /\ (changesInBurst > 0 /\ timeouts # {}) => passesInBurst = 0
  /\ (changesInBurst > 0 /\ timeouts = {}) => passesInBurst = 1

\* C3 witness: a burst of at least two changes has ended with one pass.
C3_Witness ==
  /\ changesInBurst = 2
  /\ passesInBurst = 1
  /\ timeouts = {}
  /\ sinceChange = UPDATE_DELAY_TICKS

(***************************************************************************)
(* Properties of the region data.                                          *)
(***************************************************************************)
\* The region data computed afresh for the widget values the last pass read.
FreshRegion(read) ==
  ComputeRegionData(_get_roi_indices(read.sliders), _get_grid_parameters(grid),
                    _get_miller_parameters(read.miller))

SameRegion(a, b) ==
  /\ a.phys_bounds = b.phys_bounds
  /\ a.roi_voxel_centers = b.roi_voxel_centers
  /\ a.miller_mask = b.miller_mask
  /\ a.focal_point = b.focal_point

\* C2: the region data a pass got on a cache hit have the physical bounds,
\* voxel centres, mask and focal point of a fresh computation for the ROI
\* indices and Miller parameters that pass read.
C2_CacheHitIsFresh ==
  (cache_hit /\ pass_read # None) =>
    SameRegion(Get(region_data), FreshRegion(Get(pass_read)))

\* The doubled points of a sequence of points.
Doubled(points) == [i \in DOMAIN points |-> [a \in Axes |-> 2 * points[i][a]]]

MaskActive(rd) == rd.miller_params.use_miller /\ rd.miller_params.n # None

\* C6: in the region data of a pass, the mask exists exactly when the point
\* filter filters (same enabling condition); when it does, a point at a voxel
\* centre is kept by filter_points_by_miller if and only if the voxel is
\* true in the mask; when it does not, the filter keeps every point.
C6_MaskAndFilterAgree ==
  region_data # None =>
    LET rd == Get(region_data)
        fresh == compute_roi_miller_mask(rd.roi_indices, rd.grid_params,
                                         [rd.miller_params EXCEPT
                                            !.n = Some([hkl |-> <<1, 0, 0>>, norm2 |-> 1])])
    IN  /\ (rd.miller_mask # None) <=> MaskActive(rd)
        /\ MaskActive(rd) =>
             \A v \in DOMAIN Get(rd.miller_mask) :
               Get(rd.miller_mask)[v] <=>
                 filter_points_by_miller(<<Get(rd.roi_voxel_centers)[v]>>,
                                         rd.grid_params.cell_center,
                                         rd.miller_params) # <<>>
        /\ ~MaskActive(rd) =>
             \A v \in DOMAIN fresh.voxel_centers :
               filter_points_by_miller(<<fresh.voxel_centers[v]>>,
                                       rd.grid_params.cell_center,
                                       rd.miller_params) = <<fresh.voxel_centers[v]>>

\* C6 witness: a pass with the mask active has voxels inside and outside the
\* slab, and the averaged points went through the filter.
C6_Witness ==
  /\ region_data # None /\ MaskActive(Get(region_data))
  /\ \E v, w \in DOMAIN Get(Get(region_data).miller_mask) :
       Get(Get(region_data).miller_mask)[v] /\ ~Get(Get(region_data).miller_mask)[w]
  /\ passesInBurst = 1

ZeroNormalRead ==
  /\ pass_read # None
  /\ Get(pass_read).miller.use_miller
  /\ Get(pass_read).miller.h = 0
  /\ Get(pass_read).miller.k = 0
  /\ Get(pass_read).miller.l = 0

\* What the loop over the species renders for the region data rd.
RenderedFor(read, rd) ==
  VisualiseAll(SpeciesOrder(atom_data), read.modes, read.tfui, read.sigma, atom_data,
               rd, renderer_fails,
               [rendered |-> <<>>, reported |-> {}, smoothed |-> smoothed_hist_cache,
                raised |-> FALSE]).rendered

\* C7: a pass that read Miller slicing enabled with h = k = l = 0 behaves as
\* with slicing disabled: no normal, no mask, the focal point at the ROI's
\* geometric centre, every point kept by the point filter, the same bounds
\* and the same visuals as the pass with the checkbox off, and no error.
C7_ZeroNormalIsDisabled ==
  ZeroNormalRead =>
    LET rd == Get(region_data)
        read == Get(pass_read)
        off == FreshRegion([read EXCEPT !.miller.use_miller = FALSE])
    IN  /\ rd.miller_params.n = None
        /\ rd.miller_mask = None
        /\ rd.roi_voxel_centers = None
        /\ rd.focal_point = MidPoint(rd.phys_bounds)
        /\ SameRegion(rd, off)
        /\ \A t \in DOMAIN atom_data :
             filter_points_by_miller(Doubled(atom_data[t].individual_averages),
                                     rd.grid_params.cell_center, rd.miller_params)
               = Doubled(atom_data[t].individual_averages)
        /\ rendered_actors = RenderedFor(read, off)
        /\ ~raised /\ reported = {}

\* C7 witness: such a pass has run and has drawn both species.
C7_Witness ==
  /\ ZeroNormalRead
  /\ DOMAIN rendered_actors = {"Li", "S"}
  /\ passesInBurst = 1

(***************************************************************************)
(* Properties of one pass over the species.                                *)
(***************************************************************************)
\* C4: in a pass, a failure while building one species' visual (Histogram or
\* Averaged Positions) is caught for that species only: no exception leaves
\* the pass, every other non-hidden species has its visual, and the camera
\* focal point is the one of the pass's region data.
C4_FailureIsContained ==
  pass_read # None =>
    /\ ~raised
    /\ camera = Some(Get(region_data).focal_point)
    /\ \A t \in DOMAIN modes :
         (Get(pass_read).modes[t] # "Hidden" /\ t \notin renderer_fails)
           => t \in DOMAIN rendered_actors

\* C9: in the volume of a pass with a Miller mask, every voxel the mask marks
\* as outside the slab has alpha 0, whatever its density and whatever the
\* thresholds, the opacity and the gamma.
C9_MaskedVoxelsTransparent ==
  (region_data # None /\ Get(region_data).miller_mask # None) =>
    \A t \in DOMAIN rendered_actors :
      rendered_actors[t].kind = "volume" =>
        \A v \in DOMAIN rendered_actors[t].alpha :
          ~Get(Get(region_data).miller_mask)[v] => rendered_actors[t].alpha[v] = 0

\* The smoothed field of species t as the last pass used it.
ProcessedOf(t) ==
  ProcessedData(atom_data[t].histogram_data.raw_data, Get(pass_read).sigma,
                smoothed_hist_cache).data

\* C9 witness: a volume was drawn with a mask that leaves out a voxel denser
\* than every voxel inside the slab, with gamma > 0 and lower = 0 read, and
\* some voxel inside the slab is visible.
C9_Witness ==
  /\ region_data # None /\ Get(region_data).miller_mask # None
  /\ "Li" \in DOMAIN rendered_actors
  /\ Get(pass_read).tfui["Li"].gamma > 0
  /\ Get(pass_read).tfui["Li"].density_lower = 0
  /\ \E v \in DOMAIN rendered_actors["Li"].alpha :
       /\ ~Get(Get(region_data).miller_mask)[v]
       /\ \A w \in DOMAIN rendered_actors["Li"].alpha :
            Get(Get(region_data).miller_mask)[w] => ProcessedOf("Li")[v] > ProcessedOf("Li")[w]
  /\ \E w \in DOMAIN rendered_actors["Li"].alpha : rendered_actors["Li"].alpha[w] > 0

\* The voxels of species t's volume whose normalized density equals the lower
\* threshold the pass read.
AtLowerEdge(t) ==
  {v \in DOMAIN rendered_actors[t].alpha :
     255 * rendered_actors[t].normalized.num[v]
       = Get(pass_read).tfui[t].density_lower * rendered_actors[t].normalized.den}

\* C10: in a volume drawn with gamma = 0, every voxel whose normalized
\* density is exactly the lower threshold has alpha 0, for every upper
\* threshold and opacity (with lower = 0: no zero-density voxel is shown).
C10_LowerEdgeStrict ==
  \A t \in DOMAIN rendered_actors :
    (rendered_actors[t].kind = "volume" /\ Get(pass_read).tfui[t].gamma = 0) =>
      \A v \in AtLowerEdge(t) : rendered_actors[t].alpha[v] = 0

\* C10 witness: a volume drawn with gamma = 0, the opacity at 100 and the upper
\* threshold at 255 has a voxel inside the slab whose normalized density, 1/3,
\* is exactly the lower threshold 85/255, and another voxel that is visible.
C10_Witness ==
  /\ "Li" \in DOMAIN rendered_actors
  /\ Get(pass_read).tfui["Li"] =
       [density_lower |-> 85, density_upper |-> 255, opacity |-> 100, gamma |-> 0]
  /\ \E v \in AtLowerEdge("Li") :
       /\ Get(Get(region_data).miller_mask)[v]
       /\ rendered_actors["Li"].normalized.num[v] > 0
  /\ \E w \in DOMAIN rendered_actors["Li"].alpha : rendered_actors["Li"].alpha[w] > 0

(***************************************************************************)
(* Properties of the load.                                                 *)
(***************************************************************************)
RECURSIVE SumBins(_, _)
SumBins(hist, S) ==
  IF S = {} THEN 0
  ELSE LET b == CHOOSE x \in S : TRUE IN hist[b] + SumBins(hist, S \ {b})

\* The bin counts of a species: 'raw_data', or 'data' for a species without
\* positions.
BinCounts(h) == IF "raw_data" \in DOMAIN h THEN h.raw_data ELSE h.data

\* The positions of the input that belong to species t and lie in the
\* Initial ROI, as <<frame, atom>> pairs.
PositionsInRoi(t) ==
  LET rb == _calculate_roi_bounds(input.roi_definition, input.frames[1].cell)
      sym == _get_chemical_symbols_mapped(ATOM_TYPE_MAP, input.frames[1].symbols)
  IN  {fa \in (1 .. Len(input.frames)) \X (1 .. Len(sym)) :
         /\ sym[fa[2]] = t
         /\ InRoi(input.frames[fa[1]].positions[fa[2]], rb.roi_min, rb.roi_max)}

\* C5: after a successful load, for every species the bin counts sum to the
\* number of its positions inside the Initial ROI, which is the number of
\* positions kept for it, and global_max is the largest bin count.
C5_CountsSumToPositions ==
  phase = "ready" =>
    \A t \in DOMAIN atom_data :
      LET h == atom_data[t].histogram_data
          counts == BinCounts(h)
      IN  /\ Len(atom_data[t].global_positions) = Cardinality(PositionsInRoi(t))
          /\ SumBins(counts, DOMAIN counts) = Cardinality(PositionsInRoi(t))
          /\ \E b \in DOMAIN counts : counts[b] = h.global_max
          /\ \A b \in DOMAIN counts : counts[b] <= h.global_max

\* C5 witness: a load has kept, for one species, a position on the lower
\* corner of the ROI and a position on its upper faces, and dropped one that
\* lies outside.
C5_Witness ==
  /\ phase = "ready"
  /\ \E t \in DOMAIN atom_data :
       /\ \E i, j \in DOMAIN atom_data[t].global_positions :
            /\ atom_data[t].global_positions[i] = <<0, 0, 0>>
            /\ atom_data[t].global_positions[j] = <<CellSide, 1, CellSide>>
       /\ Cardinality(PositionsInRoi(t)) = 3
       /\ Len(input.frames) = MaxFrames

\* C8: a species without a position inside the Initial ROI has a zero field
\* (global min = global max = 0), and a pass that reads it in Histogram mode
\* draws nothing for it, without an exception and without reporting an error.
C8_EmptySpeciesSilent ==
  (phase = "ready" /\ pass_read # None) =>
    \A t \in DOMAIN atom_data :
      Len(atom_data[t].global_positions) = 0 =>
        /\ atom_data[t].histogram_data.global_min = 0
        /\ atom_data[t].histogram_data.global_max = 0
        /\ Get(pass_read).modes[t] = "Histogram" =>
             /\ t \notin DOMAIN rendered_actors
             /\ t \notin reported
             /\ ~raised
(***************************************************************************)
(* Properties of the configuration.                                        *)
(***************************************************************************)
\* A slice value the load accepts by its form: a slice object, or a string of
\* at most three colon-separated parts, each empty or an integer.
WellFormedSlice(sv) ==
  \/ sv.kind = "slice"
  \/ /\ sv.kind = "str"
     /\ Len(sv.parts) <= 3
     /\ \A i \in DOMAIN sv.parts : sv.parts[i].text # "other"

UnsupportedFormat(inp) ==
  inp.config # None /\ Get(inp.config).format \notin {Some("ase"), Some("pickle")}
MalformedSlice(inp) ==
  inp.config # None /\ ~WellFormedSlice(Get(inp.config).slice)
RoiWithoutBounds(inp) ==
  inp.roi_definition # None /\ Get(inp.roi_definition).bounds = None
RoiOfUnknownType(inp) ==
  /\ inp.roi_definition # None
  /\ Get(inp.roi_definition).type \notin {None, Some("fractional"), Some("absolute")}

ConfigurationError(inp) ==
  \/ UnsupportedFormat(inp)
  \/ MalformedSlice(inp)
  \/ RoiWithoutBounds(inp)
  \/ RoiOfUnknownType(inp)

\* C11: with an unsupported format tag, a slice that is neither a well-formed
\* colon-delimited string nor a slice object, an ROI declaration without
\* bounds or one of an unrecognized type, load_and_precompute raises, and it
\* does so before any per-species data or histogram exists.
C11_ConfigurationErrorsRaise ==
  (phase # "constructing" /\ ConfigurationError(input)) =>
    /\ phase = "load_failed"
    /\ atom_data = <<>>
    /\ grid = None

\* C11 witness: the load has failed on an ROI declaration of an unrecognized
\* type, met after the frames were read, with no per-species data built.
C11_Witness ==
  /\ phase = "load_failed"
  /\ RoiOfUnknownType(input) /\ ~RoiWithoutBounds(input)
  /\ ~UnsupportedFormat(input) /\ ~MalformedSlice(input)
  /\ self_frames # None
  /\ atom_data = <<>>

\* The slice of the configuration selects no frame of the file.
EmptyFrameList(inp) ==
  /\ inp.config # None
  /\ ~UnsupportedFormat(inp)
  /\ ParseSlice(Get(inp.config).slice).ok
  /\ ParseSlice(Get(inp.config).slice).step # Some(0)
  /\ ApplySlice(inp.frames, ParseSlice(Get(inp.config).slice)) = <<>>

\* C12: after load_and_precompute has failed with a bad format, a malformed
\* slice, missing ROI bounds, an unknown ROI type or an empty frame list, the
\* object has none of frames, initial ROI bounds, atom_data and grid.
C12_FailedLoadLeavesNothing ==
  (phase = "load_failed" /\ (ConfigurationError(input) \/ EmptyFrameList(input))) =>
    /\ self_frames = None
    /\ initial_roi = None
    /\ atom_data = <<>>
    /\ grid = None

\* A load whose input config and trajectory are in order.
UsableInput(inp) ==
  /\ inp.config = INPUT_FILE_CONFIG
  /\ inp.frames # <<>>

\* The corner of the cell at the multiples m of the cell vectors.
CellCorner(cell, m) ==
  [a \in Axes |-> m[1] * cell[1][a] + m[2] * cell[2][a] + m[3] * cell[3][a]]

C14_StoredBoundsOrdered ==
  phase = "ready" =>
    \A a \in Axes :
      /\ Get(initial_roi).roi_min[a] < Get(initial_roi).roi_max[a]
      /\ grid.global_spacing[a] > 0

\* The corners of the box an absolute declaration gives, and of the one a
\* fractional declaration gives in a cell.
AbsoluteBox(ab) == {[a \in Axes |-> ab[a][c[a]]] : c \in [Axes -> {1, 2}]}
FractionalBox(fb, cell) ==
  {CellCorner(cell, [a \in Axes |-> fb[a][c[a]]]) : c \in [Axes -> {1, 2}]}

\* An absolute declaration (min, max per axis) and a fractional one describe
\* the same physical box.
SameBox(fb, ab, cell) ==
  /\ \A a \in Axes : ab[a][1] <= ab[a][2]
  /\ AbsoluteBox(ab) = FractionalBox(fb, cell)

BoundsOf(rb) == Some([roi_min |-> rb.roi_min, roi_max |-> rb.roi_max])
Declared(ty, b) == Some([type |-> Some(ty), bounds |-> Some(b)])

\* C15: the Initial ROI Bounds stored for a fractional declaration are those
\* _calculate_roi_bounds gives for every absolute declaration of the same
\* physical box in that cell, and the other way round.
C15_FractionalAndAbsoluteAgree ==
  (phase = "ready" /\ input.roi_definition # None) =>
    /\ Get(input.roi_definition).type = Some("fractional") =>
         \A ab \in AbsoluteBounds :
           SameBox(Get(Get(input.roi_definition).bounds), ab, input.frames[1].cell) =>
             initial_roi
               = BoundsOf(_calculate_roi_bounds(Declared("absolute", ab),
                                                input.frames[1].cell))
    /\ Get(input.roi_definition).type \in {Some("absolute"), None} =>
         \A fb \in FractionalBounds :
           SameBox(fb, Get(Get(input.roi_definition).bounds), input.frames[1].cell) =>
             initial_roi
               = BoundsOf(_calculate_roi_bounds(Declared("fractional", fb),
                                                input.frames[1].cell))

\* C15 witness: a load with a fractional declaration that reaches twice the
\* cell side along x, for which an absolute declaration of the same box is
\* among the declarations.
C15_Witness ==
  /\ phase = "ready"
  /\ input.roi_definition # None
  /\ Get(input.roi_definition).type = Some("fractional")
  /\ Get(Get(input.roi_definition).bounds)[1] = <<0, 2>>
  /\ \E ab \in AbsoluteBounds :
       SameBox(Get(Get(input.roi_definition).bounds), ab, input.frames[1].cell)
(***************************************************************************)
(* C16: the Miller mask is the open slab around the plane.                 *)
(***************************************************************************)
\* The doubled centre of the voxel at grid index idx:
\* 2 * (origin + (idx + 0.5) * spacing).
CentreAtIndex2(grid_params, idx) ==
  [a \in Axes |-> 2 * grid_params.origin[a] + (2 * idx[a] + 1) * grid_params.spacing[a]]

\* 2 * (p - c).(h, k, l), for the doubled point p2 and the centre c.
Projection2(p2, c, hkl) ==
  (p2[1] - 2 * c[1]) * hkl[1] + (p2[2] - 2 * c[2]) * hkl[2] + (p2[3] - 2 * c[3]) * hkl[3]

\* a = b * sqrt(S), for integers a, b and S > 0.
EqualSqrt(a, b, S) == a * a = b * b * S /\ (a >= 0 <=> b >= 0)

\* |(p - c).n - d| = t / 2 for the unit normal n = hkl / sqrt(norm2).
AtHalfThickness(p2, c, n, t, d) ==
  \/ EqualSqrt(Projection2(p2, c, n.hkl), 2 * d + t, n.norm2)
  \/ EqualSqrt(Projection2(p2, c, n.hkl), 2 * d - t, n.norm2)

\* |(p - c).n - d| < t / 2 for the unit normal n = hkl / sqrt(norm2).
WithinHalfThickness(p2, c, n, t, d) ==
  /\ LessSqrt(Projection2(p2, c, n.hkl), 2 * d + t, n.norm2)
  /\ GreaterSqrt(Projection2(p2, c, n.hkl), 2 * d - t, n.norm2)

\* The grid index of voxel v of the ROI sub-grid.
GridIndexOf(roi_indices, v) ==
  <<roi_indices.xmin + v[1], roi_indices.ymin + v[2], roi_indices.zmin + v[3]>>

\* C16: when a pass ran with Miller slicing active and a defined normal, a
\* voxel of the ROI is true in the mask if and only if its centre
\* p = origin + (grid index + 0.5) * spacing has |(p - c).n - d| < t / 2; a
\* voxel with that distance equal to t / 2 is false; and for (h,k,l) =
\* (1,0,0), t = 2, d = 0 and c at the origin the mask is true exactly for the
\* voxels with |x| < 1, whatever y and z.
C16_MaskIsOpenSlab ==
  (region_data # None /\ MaskActive(Get(region_data))) =>
    LET rd == Get(region_data)
        mp == rd.miller_params
        gp == rd.grid_params
        mask == Get(rd.miller_mask)
    IN  /\ DOMAIN mask = RoiVoxels(rd.roi_indices)
        /\ \A v \in DOMAIN mask :
             LET p2 == CentreAtIndex2(gp, GridIndexOf(rd.roi_indices, v))
             IN  /\ mask[v] <=>
                      WithinHalfThickness(p2, gp.cell_center, Get(mp.n),
                                          mp.thickness, mp.offset)
                 /\ AtHalfThickness(p2, gp.cell_center, Get(mp.n),
                                    mp.thickness, mp.offset) => ~mask[v]
                 /\ (/\ Get(mp.n).hkl = <<1, 0, 0>> /\ mp.thickness = 2
                     /\ mp.offset = 0 /\ gp.cell_center = <<0, 0, 0>>) =>
                       (mask[v] <=> Abs(p2[1]) < 2)

\* C16 witness: a pass over a grid centred at the origin computed a mask in
\* which a voxel lies at distance exactly t / 2 from the plane and is false,
\* and another voxel is true.
C16_Witness ==
  /\ region_data # None /\ MaskActive(Get(region_data))
  /\ Get(region_data).grid_params.cell_center = <<0, 0, 0>>
  /\ LET rd == Get(region_data)
         mask == Get(rd.miller_mask)
     IN  /\ \E v \in DOMAIN mask :
              /\ AtHalfThickness(CentreAtIndex2(rd.grid_params,
                                                GridIndexOf(rd.roi_indices, v)),
                                 rd.grid_params.cell_center, Get(rd.miller_params.n),
                                 rd.miller_params.thickness, rd.miller_params.offset)
              /\ ~mask[v]
         /\ \E w \in DOMAIN mask : mask[w]

(***************************************************************************)
(* C17: with sigma = 0 the histogram is sliced as it was binned.           *)
(***************************************************************************)
\* The species that have a binned field.
WithRawData ==
  {t \in DOMAIN atom_data :
     /\ "histogram_data" \in DOMAIN atom_data[t]
     /\ "raw_data" \in DOMAIN atom_data[t].histogram_data}

\* The volume of species t that a pass reading rd draws from the field data.
VolumeFrom(data, t, rd) ==
  VolumeOfSub(SubData(data, rd.region.roi_indices), {}, rd.read.tfui[t], rd.region,
              FALSE)

\* C17: in every state, whatever sigma values the earlier passes read, a
\* pass that reads sigma = 0 gets the raw histogram of each species as the
\* field to slice, whether the smoothing cache has an entry for it (hit) or
\* not (miss); every entry the cache holds for sigma = 0 is the raw field;
\* and the volume the last pass drew, when it read sigma = 0, is the one
\* drawn from the raw field.
C17_ZeroSigmaIsRaw ==
  /\ \A t \in WithRawData :
       ProcessedData(atom_data[t].histogram_data.raw_data, 0,
                     smoothed_hist_cache).data
         = atom_data[t].histogram_data.raw_data
  /\ \A e \in smoothed_hist_cache : e.key[1] = 0 => e.data = e.key[2]
  /\ (pass_read # None /\ Get(pass_read).sigma = 0) =>
       \A t \in DOMAIN rendered_actors \cap WithRawData :
         rendered_actors[t].kind = "volume" =>
           LET vol == VolumeFrom(atom_data[t].histogram_data.raw_data, t,
                                 [region |-> Get(region_data), read |-> Get(pass_read)])
           IN  /\ vol.outcome = "actor"
               /\ rendered_actors[t].normalized = vol.actor.normalized
               /\ rendered_actors[t].alpha = vol.actor.alpha

\* C17 witness: the last pass read sigma = 0 and drew a volume of Li from a
\* field that the cache holds both for sigma = 0 and, smoothed to a
\* different field, for an earlier sigma > 0.
C17_Witness ==
  /\ pass_read # None /\ Get(pass_read).sigma = 0
  /\ "Li" \in DOMAIN rendered_actors /\ rendered_actors["Li"].kind = "volume"
  /\ \E e, f \in smoothed_hist_cache :
       /\ e.key = <<0, atom_data["Li"].histogram_data.raw_data>>
       /\ f.key[1] > 0 /\ f.key[2] = e.key[2] /\ f.data # e.data

(***************************************************************************)
(* C18: the averaged positions are means over every loaded frame.          *)
(***************************************************************************)
\* The atoms of species t, in the order of the first frame, whose mean
\* position over all the frames of the input lies in the Initial ROI.
AtomsWithMeanInRoi(t) ==
  LET sym == _get_chemical_symbols_mapped(input.atom_type_map, input.frames[1].symbols)
      rb == Get(initial_roi)
      n == Len(input.frames)
  IN  SelectSeq(IndicesOf(sym, t),
                LAMBDA atom :
                  \A a \in Axes :
                    /\ SumComponent(input.frames, atom, a) >= n * rb.roi_min[a]
                    /\ SumComponent(input.frames, atom, a) <= n * rb.roi_max[a])

\* C18: after a load with the default configuration, the averaged positions
\* of every species are, atom by atom, the means over all the loaded frames
\* of the atoms whose mean lies inside the Initial ROI.
C18_AveragesOverAllFrames ==
  (phase = "ready" /\ input.config = INPUT_FILE_CONFIG
     /\ input.atom_type_map = ATOM_TYPE_MAP /\ input.roi_definition = None) =>
    \A t \in DOMAIN atom_data :
      LET kept == AtomsWithMeanInRoi(t)
          avg == atom_data[t].individual_averages
      IN  /\ Len(avg) = Len(kept)
          /\ \A j \in DOMAIN avg : j \in DOMAIN kept =>
               \A a \in Axes :
                 Len(input.frames) * avg[j][a] = SumComponent(input.frames, kept[j], a)

(***************************************************************************)
(* C19: the frames are released by the load.                               *)
(***************************************************************************)
\* C19: once load_and_precompute has returned, the object holds no frames
\* (the stacked tensor is a local of the load and is not part of the
\* object), and every later pass runs to its end on the per-species data
\* and the caches alone: with a renderer that does not fail, no pass raises
\* or reports an error for want of the frames, and each species in a shown
\* mode that has something to show gets its actor.
C19_FramesReleased ==
  phase = "ready" =>
    /\ self_frames = None
    /\ (pass_read # None /\ renderer_fails = {}) =>
         /\ ~raised
         /\ reported = {}
         /\ \A t \in DOMAIN atom_data :
              (/\ Get(pass_read).modes[t] = "Histogram"
               /\ atom_data[t].histogram_data.global_max > 0) =>
                (t \in DOMAIN rendered_actors /\ rendered_actors[t].kind = "volume")

\* C19 witness: after the load, a pass that followed a change of sigma and
\* of a mode drew a volume while the object holds no frames.
C19_Witness ==
  /\ phase = "ready" /\ self_frames = None /\ renderer_fails = {}
  /\ pass_read # None /\ Get(pass_read).sigma # DefaultSigma
  /\ \E t \in DOMAIN rendered_actors :
       rendered_actors[t].kind = "volume" /\ Get(pass_read).modes[t] = "Histogram"
  /\ \E t \in DOMAIN atom_data : Get(pass_read).modes[t] = "Averaged Positions"

(***************************************************************************)
(* C20: the species of the atoms.                                          *)
(***************************************************************************)
\* The label of an atom whose chemical symbol is sym: the map's entry for
\* sym when there is a map and it has one, sym otherwise.
LabelOf(sym) ==
  IF input.atom_type_map # None /\ sym \in DOMAIN Get(input.atom_type_map)
    THEN Get(input.atom_type_map)[sym]
    ELSE sym

\* The frames a successful load has read: the slice of the file.
FramesRead == ApplySlice(input.frames, ParseSlice(Get(input.config).slice))

\* The atom indices of the first frame whose label is t, ascending.
AtomsLabelled(t) ==
  SelectSeq([i \in 1 .. Len(FramesRead[1].symbols) |-> i],
            LAMBDA i : LabelOf(FramesRead[1].symbols[i]) = t)

\* The place of a label in Python's string order.
RankOf(t) == CHOOSE r \in DOMAIN LabelOrder : LabelOrder[r] = t

\* C20: after a load, the species are the labels obtained by one lookup per
\* atom label of the first frame; the species list is these labels without
\* repetition in ascending order; every atom index of the first frame is
\* among the atoms of exactly one species; and the positions kept for a
\* species are those of its atoms.
C20_SpeciesByOneLookup ==
  phase = "ready" =>
    LET symbols == FramesRead[1].symbols
        labels == {LabelOf(symbols[i]) : i \in DOMAIN symbols}
        unique_types ==
          UniqueTypes(_get_chemical_symbols_mapped(input.atom_type_map, symbols))
    IN  /\ DOMAIN atom_data = labels
        /\ {unique_types[j] : j \in DOMAIN unique_types} = labels
        /\ SpeciesOrder(atom_data) = unique_types
        /\ \A j, k \in DOMAIN unique_types :
             j < k => RankOf(unique_types[j]) < RankOf(unique_types[k])
        /\ \A i \in DOMAIN symbols :
             Cardinality({t \in DOMAIN atom_data :
                            \E j \in DOMAIN AtomsLabelled(t) : AtomsLabelled(t)[j] = i}) = 1
        /\ \A t \in DOMAIN atom_data :
             atom_data[t].global_positions
               = SelectSeq(Flatten(FramesRead, AtomsLabelled(t)),
                           LAMBDA p : InRoi(p, Get(initial_roi).roi_min,
                                            Get(initial_roi).roi_max))

\* C20 witness: a load with the rename table has made two H atoms the
\* species Li (not renamed again to S), an Li atom the species S, and left
\* an O atom, which has no entry, as O.
C20_Witness ==
  /\ phase = "ready" /\ input.atom_type_map = ATOM_TYPE_MAP
  /\ input.frames[1].symbols = <<"H", "Li", "O", "H">>
  /\ DOMAIN atom_data = {"Li", "O", "S"}
  /\ Len(atom_data["Li"].global_positions) = 2
  /\ Len(atom_data["S"].global_positions) = 1
  /\ Len(atom_data["O"].global_positions) = 1

(***************************************************************************)
(* C21: the region data cache is one slot.                                 *)
(***************************************************************************)
\* The key _precompute_region_data computes from the widgets as they are.
KeyNow == CacheKey(_get_roi_indices(sliders), _get_miller_parameters(miller))

\* C21: in every pass (the step taken when the timeout has expired), the key
\* computed from the ROI and Miller widgets is compared with the one key
\* remembered from the preceding call: when they are equal the stored entry is
\* returned and the slot is left as it is; when they differ the region data
\* are computed anew and overwrite the slot, whatever keys the calls before
\* the preceding one had (keys A, B, A: the third call recomputes).  After
\* the call the remembered key is the key of that call.
C21_SingleSlotCache ==
  [][0 \in timeouts =>
       /\ last_hash' = Some(KeyNow)
       /\ IF region_cache # None /\ last_hash = Some(KeyNow)
            THEN /\ cache_hit'
                 /\ region_cache' = region_cache
                 /\ region_data' = region_cache
            ELSE /\ ~cache_hit'
                 /\ region_cache' =
                      Some(ComputeRegionData(_get_roi_indices(sliders),
                                             _get_grid_parameters(grid),
                                             _get_miller_parameters(miller)))
                 /\ region_data' = region_cache']_vars

\* C21 witness: the run began with the slot holding the entry of the default
\* widgets (the first two passes had that key, the second one hit); a later
\* pass read the default widgets again and recomputed, the slot having been
\* overwritten in between.
C21_Witness ==
  /\ pass_read # None /\ ~cache_hit
  /\ Get(pass_read).sliders = DefaultSliders /\ Get(pass_read).miller = DefaultMiller
  /\ last_hash = Some(CacheKey(DefaultSliders, _get_miller_parameters(DefaultMiller)))

(***************************************************************************)
(* C22: the pass after the last change shows the final parameters.         *)
(***************************************************************************)
\* The widget values as a pass would read them now.
WidgetsNow ==
  [sliders |-> sliders, miller |-> miller, sigma |-> sigma, modes |-> modes,
   tfui |-> tfui]

\* No timeout is pending after a change: the burst of changes is over.
Quiet == phase = "ready" /\ changesInBurst > 0 /\ timeouts = {}

\* The last pass read the widget values as they are now.
PassReadFinalValues == pass_read = Some(WidgetsNow)

\* The region the last pass displayed is the region of the widget values as
\* they are now.
DisplayedIsFinal ==
  /\ ~raised
  /\ SameRegion(Get(region_data), FreshRegion(WidgetsNow))

\* C22: once the changes have stopped and the timer is no longer pending, a
\* pass has run after the last change, it has read the widget values in
\* effect after that change, and what it displayed is the result for those
\* final values.
C22_FinalParametersShown ==
  Quiet => /\ passesInBurst = 1
           /\ PassReadFinalValues
           /\ DisplayedIsFinal

\* The first two parts of C22 alone.
PassReadsAtRunTime == Quiet => (passesInBurst = 1 /\ PassReadFinalValues)

(***************************************************************************)
(* C23: the point the Miller offset is measured from.                      *)
(***************************************************************************)
\* Twice the centre of the cell: the sum of its three vectors.
CellCentre2(cell) == [a \in Axes |-> cell[1][a] + cell[2][a] + cell[3][a]]

\* C23: after a load, for every ROI declaration, the centre handed to the
\* Miller mask and filter (global_cell_center, the cell_center of the grid
\* parameters) is the centre of the simulation cell of the first frame, so
\* that with offset 0 the plane passes through the cell centre.
C23_OffsetFromCellCentre ==
  phase = "ready" =>
    /\ \A a \in Axes :
         2 * grid.global_cell_center[a] = CellCentre2(FramesRead[1].cell)[a]
    /\ region_data # None =>
         Get(region_data).grid_params.cell_center = grid.global_cell_center

\* The same for the runs in which no ROI is declared.
CentreOfUndeclaredRoi == input.roi_definition = None => C23_OffsetFromCellCentre

(***************************************************************************)
(* C24: the Miller mask is aligned with the density sub-array.             *)
(***************************************************************************)
\* The index set of an array of max - min + 1 elements per axis.
ShapeOf(roi_indices) ==
  (0 .. roi_indices.xmax - roi_indices.xmin)
    \X (0 .. roi_indices.ymax - roi_indices.ymin)
    \X (0 .. roi_indices.zmax - roi_indices.zmin)

\* C24: in every pass with a mask, computed or taken from the cache, the ROI
\* indices of the region data are those the pass read from the sliders
\* (0 <= min <= max <= N-1 on each axis); the mask, the voxel centres and the
\* sub-array of every volume drawn have max - min + 1 elements per axis;
\* element (i,j,k) of the mask is the slab test of the centre of grid voxel
\* (xmin+i, ymin+j, zmin+k); and element (i,j,k) of the sub-array is the
\* density of that same grid voxel (seen on the visible voxels, whose
\* normalized density is their density less the visible minimum).
C24_MaskAlignedWithSubArray ==
  (region_data # None /\ MaskActive(Get(region_data))) =>
    LET rd == Get(region_data)
        ri == rd.roi_indices
        mask == Get(rd.miller_mask)
        vis == {v \in DOMAIN mask : mask[v]}
    IN  /\ ri = _get_roi_indices(Get(pass_read).sliders)
        /\ RoiOrdered(ri)
        /\ DOMAIN mask = ShapeOf(ri)
        /\ DOMAIN Get(rd.roi_voxel_centers) = ShapeOf(ri)
        /\ \A v \in DOMAIN mask :
             /\ Get(rd.roi_voxel_centers)[v]
                  = CentreAtIndex2(rd.grid_params, GridIndexOf(ri, v))
             /\ mask[v] <=>
                  InSlab(CentreAtIndex2(rd.grid_params, GridIndexOf(ri, v)),
                         [a \in Axes |-> 2 * rd.grid_params.cell_center[a]],
                         Get(rd.miller_params.n), rd.miller_params.thickness,
                         rd.miller_params.offset)
        /\ \A t \in DOMAIN rendered_actors :
             rendered_actors[t].kind = "volume" =>
               LET dens == [v \in vis |-> ProcessedOf(t)[GridIndexOf(ri, v)]]
                   lowest == MinOf({dens[v] : v \in vis})
                   highest == MaxOf({dens[v] : v \in vis})
               IN  /\ DOMAIN rendered_actors[t].alpha = ShapeOf(ri)
                   /\ DOMAIN rendered_actors[t].normalized.num = ShapeOf(ri)
                   /\ highest # lowest =>
                        /\ rendered_actors[t].normalized.den = highest - lowest
                        /\ \A v \in vis :
                             rendered_actors[t].normalized.num[v] = dens[v] - lowest

\* C24 witness: a pass whose region data came from the cache drew a volume
\* over a ROI that does not start at grid index 0, with a mask that keeps
\* voxels of different densities and leaves one out.
C24_Witness ==
  /\ region_data # None /\ MaskActive(Get(region_data)) /\ cache_hit
  /\ Get(region_data).roi_indices.xmin > 0
  /\ "Li" \in DOMAIN rendered_actors /\ rendered_actors["Li"].kind = "volume"
  /\ rendered_actors["Li"].normalized.den > 1
  /\ \E v \in DOMAIN Get(Get(region_data).miller_mask) :
       ~Get(Get(region_data).miller_mask)[v]

(***************************************************************************)
(* C25: the focal point.                                                   *)
(***************************************************************************)
\* The voxels of the strided sample [::5, ::5, ::5] that the mask keeps.
SampledInSlab(mask) ==
  {v \in DOMAIN mask : mask[v] /\ \A a \in Axes : v[a] % SampleStride = 0}

ActorKindOf(mode) == IF mode = "Histogram" THEN "volume" ELSE "points"

\* C27: after every update pass that completes, rendered_actors holds only
\* actors created in that pass: no entry for a species the pass read as
\* Hidden, and for any other species at most the one actor that the pass made
\* for it from the mode, the region data and the widget values it read.
C27_OnlyActorsOfThisPass ==
  (phase = "ready" /\ pass_read # None /\ ~raised) =>
    /\ \A t \in DOMAIN rendered_actors :
         /\ t \in DOMAIN Get(pass_read).modes
         /\ Get(pass_read).modes[t] # "Hidden"
         /\ rendered_actors[t].kind = ActorKindOf(Get(pass_read).modes[t])
    /\ rendered_actors = RenderedFor(Get(pass_read), Get(region_data))

\* An earlier pass has drawn a histogram (its field is in the smoothing
\* cache); the last pass read no species as Histogram and S as Averaged
\* Positions, and left the actor of S alone.
C27_Witness ==
  /\ phase = "ready" /\ pass_read # None /\ ~raised
  /\ smoothed_hist_cache # {}
  /\ \A t \in DOMAIN Get(pass_read).modes : Get(pass_read).modes[t] # "Histogram"
  /\ Get(pass_read).modes["S"] = "Averaged Positions"
  /\ DOMAIN rendered_actors = {"S"}
  /\ rendered_actors["S"].kind = "points"

\* A step that moved the min or the max slider of the axis whose sliders are
\* lo and hi: the other axes keep their values, and the opposite bound is set
\* equal to the moved slider when the move crossed it and kept otherwise.
MovedOnAxis(lo, hi) ==
  /\ \A f \in DOMAIN sliders \ {lo, hi} : sliders'[f] = sliders[f]
  /\ \/ /\ sliders'[lo] # sliders[lo]
        /\ sliders'[hi] = IF sliders'[lo] > sliders[hi] THEN sliders'[lo] ELSE sliders[hi]
     \/ /\ sliders'[hi] # sliders[hi]
        /\ sliders'[lo] = IF sliders'[hi] < sliders[lo] THEN sliders'[hi] ELSE sliders[lo]

\* C28: a move of a ROI slider changes at most the two sliders of its own
\* axis; the moved slider has the value it was moved to, the opposite bound is
\* set equal to it when the move crossed it, and the move is one change: the
\* opposite bound's handler does not run in turn, so one timeout is pending
\* and the burst has grown by one change.
C28_MoveStaysOnItsAxis ==
  [][sliders' # sliders =>
       /\ \/ MovedOnAxis("xmin", "xmax")
          \/ MovedOnAxis("ymin", "ymax")
          \/ MovedOnAxis("zmin", "zmax")
       /\ timeouts' = {UPDATE_DELAY_TICKS}
       /\ changesInBurst' = IF changesInBurst > 0 /\ sinceChange < UPDATE_DELAY_TICKS
                               THEN Min2(changesInBurst + 1, 2) ELSE 1]_vars

\* The last pass read y min = y max = 0; since then the y min slider alone was
\* moved, to the top index, past the y max slider, which followed it; the x
\* and z sliders are where they were and one timeout is pending.
C28_Witness ==
  /\ phase = "ready" /\ pass_read # None
  /\ Get(pass_read).sliders = [DefaultSliders EXCEPT !.ymax = 0]
  /\ sliders = [DefaultSliders EXCEPT !.ymin = GRID_RESOLUTION - 1]
  /\ changesInBurst = 1 /\ passesInBurst = 0 /\ sinceChange = 0
  /\ timeouts = {UPDATE_DELAY_TICKS}

\* The bin of the clipped coordinate x on axis a of the grid of the load.
ClippedBin(x, a) ==
  BinOf(Edges(Get(initial_roi).roi_min[a], Get(initial_roi).roi_max[a],
              grid.global_spacing[a]),
        ClipEps(x, Get(initial_roi).roi_min[a], Get(initial_roi).roi_max[a]))

\* C29: in every raw histogram built at load, every bin with the last index
\* N-1 on some axis holds zero counts, and every clipped position falls in a
\* bin of index at most N-2 on every axis.
C29_LastBinEmpty ==
  \A t \in WithRawData :
    /\ \A b \in DOMAIN atom_data[t].histogram_data.raw_data :
         (\E a \in Axes : b[a] = GRID_RESOLUTION - 1)
           => atom_data[t].histogram_data.raw_data[b] = 0
    /\ \A i \in DOMAIN atom_data[t].global_positions, a \in Axes :
         ClippedBin(atom_data[t].global_positions[i][a], a) \in 0 .. GRID_RESOLUTION - 2

\* A histogram was built for a species with a position on the ROI max of
\* some axis, which the clip moved below the last edge.
C29_Witness ==
  /\ phase = "ready"
  /\ \E t \in WithRawData :
       \E i \in DOMAIN atom_data[t].global_positions, a \in Axes :
         /\ atom_data[t].global_positions[i][a] = Get(initial_roi).roi_max[a]
         /\ ClippedBin(atom_data[t].global_positions[i][a], a) = GRID_RESOLUTION - 2

\* The voxels of the ROI the last pass took as visible.
VisibleVoxels ==
  IF Get(region_data).miller_mask # None
    THEN {v \in RoiVoxels(Get(region_data).roi_indices) :
            Get(Get(region_data).miller_mask)[v]}
    ELSE RoiVoxels(Get(region_data).roi_indices)

\* The densities of species t on the visible voxels of the last pass.
VisibleDensities(t) ==
  {SubData(ProcessedOf(t), Get(region_data).roi_indices)[v] : v \in VisibleVoxels}

\* C30: when the last pass drew species t as a histogram over visible voxels
\* that all have the same density, or with a lower threshold above the upper
\* one, it reported no error and made a volume whose every voxel has alpha 0,
\* whatever gamma and opacity it read.
C30_DegenerateBandTransparent ==
  (phase = "ready" /\ pass_read # None /\ ~raised) =>
    \A t \in WithRawData :
      ( /\ Get(pass_read).modes[t] = "Histogram"
        /\ VisibleVoxels # {}
        /\ \/ Cardinality(VisibleDensities(t)) = 1
           \/ Get(pass_read).tfui[t].density_lower > Get(pass_read).tfui[t].density_upper )
      => /\ t \notin reported
         /\ t \in DOMAIN rendered_actors
         /\ rendered_actors[t].kind = "volume"
         /\ \A v \in DOMAIN rendered_actors[t].alpha : rendered_actors[t].alpha[v] = 0

\* A pass drew Li over a slab of one voxel with a density above zero, with
\* gamma and opacity above zero and the lower threshold at 0 below the upper.
C30_Witness ==
  /\ phase = "ready" /\ pass_read # None /\ ~raised
  /\ Get(pass_read).miller.use_miller
  /\ Cardinality(VisibleVoxels) = 1
  /\ \A d \in VisibleDensities("Li") : d > 0
  /\ Get(pass_read).tfui["Li"].gamma > 0
  /\ Get(pass_read).tfui["Li"].opacity > 0
  /\ Get(pass_read).tfui["Li"].density_lower = 0
  /\ Get(pass_read).tfui["Li"].density_upper = 255
  /\ "Li" \in DOMAIN rendered_actors

====
